---- MODULE Spec2Model ----
(***************************************************************************)
(* A model of parts of the VMime library:                                  *)
(*   - charset::convert, streaming and buffer form (src/src/charset.cpp),  *)
(*   - charset::operator== / operator!= (src/src/charset.cpp),             *)
(*   - relayField::parse and generate (src/src/relayField.cpp),            *)
(*   - copyFrom of the header fields, bodyPart::parse and clone,           *)
(*   - SMTPTransport: connect, disconnect, noop, send                      *)
(*     (src/unnamed/part_003),                                             *)
(*   - the word and charset constructors (src/src/word.cpp),               *)
(*   - utility::random::next (src/src/utility/random.cpp),                 *)
(*   - the encoder test driver (src/unnamed/part_006); the encoders it     *)
(*     runs are not among the sources and their output is not computed.    *)
(* Bytes are integers 0..255; a string is a sequence of bytes (charset     *)
(* conversion) or a sequence of one-character strings (header text).       *)
(***************************************************************************)
EXTENDS Integers, Sequences, FiniteSets, TLC

VARIABLES
    \* ---- charset::convert ------------------------------------------------
    cpc,            \* position: "start", "loop", "done", "error"
    form,           \* which convert was called: "none", "stream", "buffer"
    stage,          \* 1: first conversion, 2: conversion of the result back
    orig,           \* the bytes given to the first conversion
    src,            \* name of the source charset
    dst,            \* name of the destination charset
    input,          \* the bytes held by the input (stream or string)
    rdPos,          \* number of bytes read from the input stream so far
    inBuffer,       \* inBuffer[0 .. inPos): the bytes kept for the next pass
    prevIsInvalid,  \* the local flag of the streaming convert
    out,            \* every byte written to the output stream so far
    outStr,         \* the string `out' of the buffer form
    cerr,           \* exception raised: "none" or "charset_conv_error"
    discarded,      \* history: input positions skipped by the second branch
    failLog,        \* history: one record per pass in which iconv failed
    passes,         \* history: number of passes of the loop so far
    \* ---- charset::operator== / operator!= --------------------------------
    csA,            \* m_name of the left charset
    csB,            \* m_name of the right charset
    csDone,         \* the comparisons made so far (a set of their names)
    csEq,           \* result of A == B
    csEqRev,        \* result of B == A
    csEqSelf,       \* result of A == A
    csNe,           \* result of A != B
    \* ---- relayField::parse -----------------------------------------------
    rpc,            \* position: "start", "loop", "done"
    rbuffer,        \* the text given to parse (position = 0, end = its length)
    iss,            \* what the istringstream has not yet given out
    previous,       \* the words accumulated for the current part
    part,           \* the part being read: "None", "From", "By", "Via", ...
    inComment,      \* the local flag of parse
    m_from, m_by, m_via, m_with, m_id, m_for,
    m_date,         \* the text given to m_date.parse
    newPosition,    \* *newPosition, -1 before it is set
    prior,          \* history: the slots before parse was called
    rlog,           \* history: one record per word read
    \* ---- relayField::generate --------------------------------------------
    gens,           \* history: the value texts generated so far, in order
    gfields,        \* history: the field each of them was generated from
    gcalls,         \* the calls the last generate made, in order
    gos,            \* what the last generate wrote to os
    gnewLinePos,    \* *newLinePos after the last generate, -1 before it is set
    \* ---- copyFrom of the header fields ----------------------------------
    cfPc,           \* position: "start", "copied", "error", "modified"
    cfTarget,       \* the field copyFrom is called on
    cfSource,       \* the field given to copyFrom
    cfErr,          \* exception raised: "none" or "bad_cast"
    cfOrig,         \* history: target and source before the call
    cfCopied,       \* history: target and source when copyFrom returned
    \* ---- bodyPart::parse -------------------------------------------------
    bpPc,           \* position: "start", "header", "body", "done"
    bpBuffer,       \* the buffer given to parse
    bpPosition,     \* the argument position
    bpEnd,          \* the argument end
    bpWantPos,      \* whether newPosition is not NULL
    bpPos,          \* the local pos
    bpCalls,        \* history: the calls of the two parsers, in order
    bpNewPosition,  \* *newPosition, -1 while it is not set
    \* ---- bodyPart::clone -------------------------------------------------
    heap,           \* the bodyPart objects: heap[i] is the object at address i
    heapBefore,     \* history: the heap before the last clone()
    clNode,         \* history: the node the last clone() was called on, 0: none
    clResult,       \* the pointer the last clone() returned, 0: none
    clCount,        \* history: number of clone() calls so far
    \* ---- SMTPTransport ---------------------------------------------------
    tpc,            \* position of the running call, "idle" between calls,
                    \* "destroyed" after the destructor
    m_socket,       \* NULL or the address of a socket (an index of sockets)
    m_authentified,
    m_extendedSMTP,
    m_timeoutHandler, \* NULL or the address of a handler (an index of handlers)
    sockets,        \* the socket objects created so far
    handlers,       \* the time-out handler objects created so far
    needAuth,       \* session property options.need-authentication
    timeoutFactory, \* whether the session property timeout.factory exists
    trace,          \* history: the events of the running (or the last) call
    atCall,         \* history: the transport when that call began
    expeditor,      \* argument of send
    recipients,     \* argument of send
    it,             \* send: how many recipients were given to the server
    is,             \* argument of send: what each read of the stream gives
    size,           \* argument of send
    progress,       \* argument of send: whether a listener is given
    \* ---- word and charset: constructors, assignments, charset::parse ----
    localeCharset,  \* what the platform handler gives as the locale charset
    m_buffer,       \* the word object: its text
    m_charset,      \* the word object: the name of its charset
    wordBuilt,      \* history: the constructor or the assignment of a word
                    \* that gave the word its charset, or "none"
    wordBefore,     \* history: the word before the operator=(string) that
                    \* was the last operation, the empty word otherwise
    wordAssigned,   \* history: whether the last operation was operator=(string)
    m_name,         \* the charset object: its name
    charsetBuilt,   \* history: the constructor, assignment or parse that
                    \* gave the charset its name, or "none"
    csNewPosition,  \* *newPosition when the last operation on the charset
                    \* was parse, -1 when not set
    \* ---- utility::random -------------------------------------------------
    m_next,         \* the state: an unsigned int as two 16-bit halves
    longBits,       \* the build: number of bits of unsigned long, 32 or 64
    rndBefore,      \* history: the state before the last next()
    rndReturned,    \* what the last next() returned
    rndCalls,       \* history: number of next() calls so far
    \* ---- the encoder test driver ----------------------------------------
    encName,        \* argv[1]: the name given to the encoder factory
    encInput,       \* the bytes to encode (standard input of the first run)
    encPc,          \* position: "start", "encoded", "decoded"
    encoded,        \* standard output of the first run
    decoded         \* standard output of the run with mode "d" on `encoded'

convVars == <<cpc, form, stage, orig, src, dst, input, rdPos, inBuffer,
              prevIsInvalid, out, outStr, cerr, discarded, failLog, passes>>

csVars == <<csA, csB, csDone, csEq, csEqRev, csEqSelf, csNe>>

relayVars == <<rpc, rbuffer, iss, previous, part, inComment, m_from, m_by,
               m_via, m_with, m_id, m_for, m_date, newPosition, prior, rlog>>

genVars == <<gens, gfields, gcalls, gos, gnewLinePos>>

copyVars == <<cfPc, cfTarget, cfSource, cfErr, cfOrig, cfCopied>>

partVars == <<bpPc, bpBuffer, bpPosition, bpEnd, bpWantPos, bpPos, bpCalls, bpNewPosition>>

treeVars == <<heap, heapBefore, clNode, clResult, clCount>>

smtpVars == <<tpc, m_socket, m_authentified, m_extendedSMTP, m_timeoutHandler, sockets, handlers, needAuth, timeoutFactory, trace, atCall, expeditor, recipients, it, is, size, progress>>

wordVars == <<localeCharset, m_buffer, m_charset, wordBuilt, wordBefore, wordAssigned, m_name, charsetBuilt, csNewPosition>>

rndVars == <<m_next, longBits, rndBefore, rndReturned, rndCalls>>

encVars == <<encName, encInput, encPc, encoded, decoded>>

vars == <<convVars, csVars, relayVars, genVars, copyVars, partVars, treeVars, smtpVars, wordVars, rndVars, encVars>>

\* the variables an operation of one component leaves alone
convOthers == <<csVars, relayVars, genVars, copyVars, partVars, treeVars, smtpVars, wordVars, rndVars, encVars>>
csOthers == <<convVars, relayVars, genVars, copyVars, partVars, treeVars, smtpVars, wordVars, rndVars, encVars>>
relayOthers == <<convVars, csVars, genVars, copyVars, partVars, treeVars, smtpVars, wordVars, rndVars, encVars>>
genOthers == <<convVars, csVars, copyVars, partVars, treeVars, smtpVars, wordVars, rndVars, encVars>>
copyOthers == <<convVars, csVars, relayVars, genVars, partVars, treeVars, smtpVars, wordVars, rndVars, encVars>>
partOthers == <<convVars, csVars, relayVars, genVars, copyVars, treeVars, smtpVars, wordVars, rndVars, encVars>>
treeOthers == <<convVars, csVars, relayVars, genVars, copyVars, partVars, smtpVars, wordVars, rndVars, encVars>>
smtpOthers == <<convVars, csVars, relayVars, genVars, copyVars, partVars, treeVars, wordVars, rndVars, encVars>>
wordOthers == <<convVars, csVars, relayVars, genVars, copyVars, partVars, treeVars, smtpVars, rndVars, encVars>>
rndOthers == <<convVars, csVars, relayVars, genVars, copyVars, partVars, treeVars, smtpVars, wordVars, encVars>>
encOthers == <<convVars, csVars, relayVars, genVars, copyVars, partVars, treeVars, smtpVars, wordVars, rndVars>>

----------------------------------------------------------------------------
(* Bounds of the model *)

\* longest input given to the first conversion
MaxLen == 7

\* the input bytes: 'a' and, read as UTF-8, the lead byte and the continuation
\* byte of U+00E9 (a continuation byte with no lead byte before it is invalid)
InputBytes == {97, 195, 169}

\* further inputs: read as UTF-8, the sequences of four, five and six bytes
\* of code points above U+10FFFF, alone and between two 'a', and a lead
\* byte of such a sequence with nothing after it
LongSequenceInputs ==
    {<<244, 144, 128, 128>>, <<248, 136, 128, 128, 128>>,
     <<252, 132, 128, 128, 128, 128>>, <<245>>,
     <<97, 248, 136, 128, 128, 128, 97>>}

----------------------------------------------------------------------------
(* Helpers *)

Min(a, b) == IF a < b THEN a ELSE b

SeqsUpTo(S, n) == UNION {[1..k -> S] : k \in 0..n}

----------------------------------------------------------------------------
(* charset::operator== and operator!= *)

\* longest charset name compared, apart from ExampleNames
MaxNameLen == 3

NameChars == {"U", "u", "8"}

ExampleNames == {<<"U", "T", "F", "-", "8">>, <<"u", "t", "f", "-", "8">>, <<"U", "T", "F", "8">>}

UpperCase == <<"A", "B", "C", "D", "E", "F", "G", "H", "I", "J", "K", "L", "M", "N", "O", "P", "Q", "R", "S", "T", "U", "V", "W", "X", "Y", "Z">>
LowerCase == <<"a", "b", "c", "d", "e", "f", "g", "h", "i", "j", "k", "l", "m", "n", "o", "p", "q", "r", "s", "t", "u", "v", "w", "x", "y", "z">>

\* std::tolower(c, std::locale()) in the "C" locale
ToLower(c) ==
    IF \E i \in 1..Len(UpperCase) : UpperCase[i] = c
    THEN LowerCase[CHOOSE i \in 1..Len(UpperCase) : UpperCase[i] = c]
    ELSE c

\* isStringEqualNoCase(s1, s2): the two strings have the same length and are
\* equal character by character, case folded
RECURSIVE isStringEqualNoCase(_, _)
isStringEqualNoCase(s1, s2) ==
    IF Len(s1) # Len(s2) THEN FALSE
    ELSE IF Len(s1) = 0 THEN TRUE
    ELSE IF ToLower(Head(s1)) # ToLower(Head(s2)) THEN FALSE
    ELSE isStringEqualNoCase(Tail(s1), Tail(s2))

\* a variant of OperatorEq that compares the names as they are
OperatorEq_CaseSensitive(name, valueName) == name = valueName

\* charset::operator==(value): isStringEqualNoCase(m_name, value.m_name)
OperatorEq(name, valueName) == isStringEqualNoCase(name, valueName)

\* charset::operator!=(value): !(*this == value)
OperatorNe(name, valueName) == ~OperatorEq(name, valueName)

BoolName(b) == IF b THEN "true" ELSE "false"

CompareEq ==
    /\ "eq" \notin csDone
    /\ csEq' = BoolName(OperatorEq(csA, csB))
    /\ csDone' = csDone \cup {"eq"}
    /\ UNCHANGED <<csA, csB, csEqRev, csEqSelf, csNe>>
    /\ UNCHANGED csOthers

CompareEqReversed ==
    /\ "rev" \notin csDone
    /\ csEqRev' = BoolName(OperatorEq(csB, csA))
    /\ csDone' = csDone \cup {"rev"}
    /\ UNCHANGED <<csA, csB, csEq, csEqSelf, csNe>>
    /\ UNCHANGED csOthers

CompareEqSelf ==
    /\ "self" \notin csDone
    /\ csEqSelf' = BoolName(OperatorEq(csA, csA))
    /\ csDone' = csDone \cup {"self"}
    /\ UNCHANGED <<csA, csB, csEq, csEqRev, csNe>>
    /\ UNCHANGED csOthers

CompareNe ==
    /\ "ne" \notin csDone
    /\ csNe' = BoolName(OperatorNe(csA, csB))
    /\ csDone' = csDone \cup {"ne"}
    /\ UNCHANGED <<csA, csB, csEq, csEqRev, csEqSelf>>
    /\ UNCHANGED csOthers

----------------------------------------------------------------------------
(* The transcoding primitive, iconv(3), for UTF-8 and ISO-8859-1 *)

Utf8 == "UTF-8"
Latin1 == "ISO-8859-1"
Unknown == "X-UNKNOWN"
CharsetNames == {Utf8, Latin1, Unknown}

\* sizeof(inBuffer), sizeof(outBuffer) of the streaming convert; sizeof(buffer)
\* of iconvert
InBufferSize == 5
OutBufferSize == 32768
IconvertBufferSize == 65536

QuestionMark == 63

\* iconv_open(tocode, fromcode) succeeds
iconv_open(to, from) == to \in {Utf8, Latin1} /\ from \in {Utf8, Latin1}

IsCont(b) == b >= 128 /\ b <= 191

\* length of the UTF-8 sequence a lead byte announces, 0 for no lead byte.
\* The decoder of the C library takes the sequences of up to six bytes of
\* the first definition of UTF-8 (code points up to 0x7FFFFFFF): F5..F7 lead
\* four bytes, F8..FB five, FC..FD six; C0, C1, FE and FF lead nothing
Utf8SeqLen(b) ==
    IF b < 128 THEN 1
    ELSE IF b >= 194 /\ b <= 223 THEN 2
    ELSE IF b >= 224 /\ b <= 239 THEN 3
    ELSE IF b >= 240 /\ b <= 247 THEN 4
    ELSE IF b >= 248 /\ b <= 251 THEN 5
    ELSE IF b >= 252 /\ b <= 253 THEN 6
    ELSE 0

\* the code point of the complete sequence of n bytes at buf[i]
Utf8CodePoint(buf, i, n) ==
    CASE n = 1 -> buf[i]
      [] n = 2 -> (buf[i] % 32) * 64 + (buf[i+1] % 64)
      [] n = 3 -> (buf[i] % 16) * 4096 + (buf[i+1] % 64) * 64 + (buf[i+2] % 64)
      [] n = 4 -> (buf[i] % 8) * 262144 + (buf[i+1] % 64) * 4096
                    + (buf[i+2] % 64) * 64 + (buf[i+3] % 64)
      [] n = 5 -> (buf[i] % 4) * 16777216 + (buf[i+1] % 64) * 262144
                    + (buf[i+2] % 64) * 4096 + (buf[i+3] % 64) * 64
                    + (buf[i+4] % 64)
      [] n = 6 -> (buf[i] % 2) * 1073741824 + (buf[i+1] % 64) * 16777216
                    + (buf[i+2] % 64) * 262144 + (buf[i+3] % 64) * 4096
                    + (buf[i+4] % 64) * 64 + (buf[i+5] % 64)

\* a code point of the surrogate range D800..DFFF
IsSurrogate(c) == c >= 55296 /\ c <= 57343

\* decode the character at buf[i]: st is "ok" (len bytes give code point cp),
\* "EINVAL" (incomplete sequence at the end of buf) or "EILSEQ" (invalid: no
\* lead byte, a byte that is no continuation byte, a sequence longer than
\* the code point needs, a surrogate)
DecodeChar(from, buf, i) ==
    IF from = Latin1 THEN [st |-> "ok", len |-> 1, cp |-> buf[i]]
    ELSE
      LET n == Utf8SeqLen(buf[i])
          avail == Len(buf) - i + 1
          m == Min(n, avail)
          contOk == \A k \in 1..(m - 1) : IsCont(buf[i + k])
      IN  IF n = 0 \/ ~contOk THEN [st |-> "EILSEQ", len |-> 0, cp |-> 0]
          ELSE IF avail < n THEN [st |-> "EINVAL", len |-> 0, cp |-> 0]
          ELSE
            LET c == Utf8CodePoint(buf, i, n)
                bad == \/ (n = 3 /\ c < 2048)
                       \/ (n = 4 /\ c < 65536)
                       \/ (n = 5 /\ c < 2097152)
                       \/ (n = 6 /\ c < 67108864)
                       \/ IsSurrogate(c)
            IN  IF bad THEN [st |-> "EILSEQ", len |-> 0, cp |-> 0]
                ELSE [st |-> "ok", len |-> n, cp |-> c]

\* the UTF-8 sequence of a code point of 0..0x7FFFFFFF
Utf8Bytes(c) ==
    IF c < 128 THEN <<c>>
    ELSE IF c < 2048 THEN <<192 + (c \div 64), 128 + (c % 64)>>
    ELSE IF c < 65536
      THEN <<224 + (c \div 4096), 128 + ((c \div 64) % 64), 128 + (c % 64)>>
    ELSE IF c < 2097152
      THEN <<240 + (c \div 262144), 128 + ((c \div 4096) % 64),
             128 + ((c \div 64) % 64), 128 + (c % 64)>>
    ELSE IF c < 67108864
      THEN <<248 + (c \div 16777216), 128 + ((c \div 262144) % 64),
             128 + ((c \div 4096) % 64), 128 + ((c \div 64) % 64),
             128 + (c % 64)>>
    ELSE <<252 + (c \div 1073741824), 128 + ((c \div 16777216) % 64),
           128 + ((c \div 262144) % 64), 128 + ((c \div 4096) % 64),
           128 + ((c \div 64) % 64), 128 + (c % 64)>>

\* encode a code point: st is "ok" or "EILSEQ" (no equivalent in `to': above
\* 0xFF for ISO-8859-1, a surrogate for UTF-8)
EncodeChar(to, c) ==
    IF to = Latin1
    THEN IF c <= 255 THEN [st |-> "ok", bytes |-> <<c>>]
                     ELSE [st |-> "EILSEQ", bytes |-> <<>>]
    ELSE IF IsSurrogate(c) THEN [st |-> "EILSEQ", bytes |-> <<>>]
    ELSE [st |-> "ok", bytes |-> Utf8Bytes(c)]

\* the characters of buf from buf[i] on, one after the other: an input that
\* cannot be decoded ends the call with EINVAL or EILSEQ; a character is
\* written only when there is room (no room for one byte is found before
\* the character is looked up in the target charset)
RECURSIVE IconvLoop(_, _, _, _, _, _)
IconvLoop(from, to, buf, i, acc, cap) ==
    IF i > Len(buf)
    THEN [ret |-> 0, consumed |-> Len(buf), out |-> acc, errno |-> "none"]
    ELSE
      LET d == DecodeChar(from, buf, i) IN
      IF d.st # "ok"
      THEN [ret |-> -1, consumed |-> i - 1, out |-> acc, errno |-> d.st]
      ELSE
        LET e == EncodeChar(to, d.cp) IN
        IF Len(acc) + 1 > cap
        THEN [ret |-> -1, consumed |-> i - 1, out |-> acc, errno |-> "E2BIG"]
        ELSE IF e.st # "ok"
        THEN [ret |-> -1, consumed |-> i - 1, out |-> acc, errno |-> "EILSEQ"]
        ELSE IF Len(acc) + Len(e.bytes) > cap
        THEN [ret |-> -1, consumed |-> i - 1, out |-> acc, errno |-> "E2BIG"]
        ELSE IconvLoop(from, to, buf, i + d.len, acc \o e.bytes, cap)

\* one call of iconv on the bytes buf with room for cap output bytes:
\* consumed = inPtr - start, out = the bytes written, ret = -1 on failure
iconv(from, to, buf, cap) == IconvLoop(from, to, buf, 1, <<>>, cap)

----------------------------------------------------------------------------
(* charset::iconvert, the buffer form *)

RECURSIVE IconvertLoop(_, _, _, _)
IconvertLoop(from, to, rest, acc) ==
    IF Len(rest) = 0 THEN acc
    ELSE
      LET r == iconv(from, to, rest, IconvertBufferSize) IN
      IF r.ret = -1
      THEN \* out += converted; out += '?'; ++inBuffer; --inBytesLeft
           IconvertLoop(from, to,
                        SubSeq(rest, r.consumed + 2, Len(rest)),
                        acc \o r.out \o <<QuestionMark>>)
      ELSE IconvertLoop(from, to, <<>>, acc \o r.out)

\* the content of `out' after iconvert(in, out, from, to) found a transcoder
iconvert(in, from, to) == IconvertLoop(from, to, in, <<>>)

----------------------------------------------------------------------------
(* charset::convert, the streaming form: one pass of the loop *)

\* in.read(inBuffer + inPos, sizeof(inBuffer) - inPos)
NRead == Min(InBufferSize - Len(inBuffer), Len(input) - rdPos)

\* inBuffer[0 .. inLength) after the read
PassBuffer == inBuffer \o SubSeq(input, rdPos + 1, rdPos + NRead)

PassResult == iconv(src, dst, PassBuffer, OutBufferSize)

\* in.eof() after the read
InEof == rdPos + NRead >= Len(input)

\* position in the input (1-based) of the byte iconv stopped at
PassFailPos == rdPos - Len(inBuffer) + PassResult.consumed + 1

\* a variant of KeepTail that forgets the unconverted tail (inPos = 0)
KeepTail_Dropped(buf, consumed) == <<>>

\* the bytes left in inBuffer by the first-failure branch:
\* std::copy(inPtr, inBuffer + sizeof(inBuffer), inBuffer); inPos = inLength
KeepTail(buf, consumed) == SubSeq(buf, consumed + 1, Len(buf))

\* the bytes left in inBuffer by the second-failure branch:
\* std::copy(inPtr + 1, inBuffer + sizeof(inBuffer), inBuffer); inPos = inLength - 1
SkipByte(buf, consumed) == SubSeq(buf, consumed + 2, Len(buf))

\* the value of prevIsInvalid the second-failure branch leaves (it assigns none)
FlagAfterSkip(prev) == prev

\* a variant of AfterPass that leaves the loop at the end of the input even
\* when bytes remain in inBuffer
AfterPass_EofOnly(newBuffer) == IF InEof THEN "done" ELSE "loop"

\* if (in.eof() && inPos == 0) break;
AfterPass(newBuffer) == IF InEof /\ Len(newBuffer) = 0 THEN "done" ELSE "loop"

FailRecord(placeholder) ==
    [pos |-> PassFailPos,
     errno |-> PassResult.errno,
     prevFailed |-> prevIsInvalid,
     prevPos |-> IF failLog = <<>> \/ ~prevIsInvalid THEN 0
                 ELSE failLog[Len(failLog)].pos,
     moreInput |-> ~InEof,
     placeholder |-> placeholder]

\* charset::convert(in, out, source, dest): iconv_open
ConvertOpen ==
    /\ cpc = "start"
    /\ form \in {"none", "stream"}
    /\ form' = "stream"
    /\ IF iconv_open(dst, src)
       THEN /\ cpc' = "loop"
            /\ cerr' = "none"
       ELSE /\ cpc' = "error"
            /\ cerr' = "charset_conv_error"
    /\ UNCHANGED <<stage, orig, src, dst, input, rdPos, inBuffer, prevIsInvalid,
                   out, outStr, discarded, failLog, passes>>
    /\ UNCHANGED convOthers

\* a pass in which iconv converts the whole buffer
ConvertPassOk ==
    /\ cpc = "loop"
    /\ PassResult.ret # -1
    /\ out' = out \o PassResult.out
    /\ inBuffer' = <<>>
    /\ prevIsInvalid' = FALSE
    /\ rdPos' = rdPos + NRead
    /\ cpc' = AfterPass(<<>>)
    /\ passes' = passes + 1
    /\ UNCHANGED <<form, stage, orig, src, dst, input, outStr, cerr, discarded,
                   failLog>>
    /\ UNCHANGED convOthers

\* a pass in which iconv fails and prevIsInvalid is false
ConvertFirstFailure ==
    /\ cpc = "loop"
    /\ PassResult.ret = -1
    /\ ~prevIsInvalid
    /\ out' = out \o PassResult.out
    /\ inBuffer' = KeepTail(PassBuffer, PassResult.consumed)
    /\ prevIsInvalid' = TRUE
    /\ rdPos' = rdPos + NRead
    /\ cpc' = AfterPass(inBuffer')
    /\ failLog' = Append(failLog, FailRecord(FALSE))
    /\ passes' = passes + 1
    /\ UNCHANGED <<form, stage, orig, src, dst, input, outStr, cerr, discarded>>
    /\ UNCHANGED convOthers

\* a pass in which iconv fails and prevIsInvalid is true
ConvertSecondFailure ==
    /\ cpc = "loop"
    /\ PassResult.ret = -1
    /\ prevIsInvalid
    /\ out' = out \o PassResult.out \o <<QuestionMark>>
    /\ inBuffer' = SkipByte(PassBuffer, PassResult.consumed)
    /\ prevIsInvalid' = FlagAfterSkip(prevIsInvalid)
    /\ rdPos' = rdPos + NRead
    /\ cpc' = AfterPass(inBuffer')
    /\ discarded' = Append(discarded, PassFailPos)
    /\ failLog' = Append(failLog, FailRecord(TRUE))
    /\ passes' = passes + 1
    /\ UNCHANGED <<form, stage, orig, src, dst, input, outStr, cerr>>
    /\ UNCHANGED convOthers

\* a variant of IconvertFailOut that clears `out' before looking for a transcoder
IconvertFailOut_Cleared(prevOut) == <<>>

\* the content of the string `out' when iconvert finds no transcoder and
\* throws: out.clear() is inside the branch taken with a transcoder
IconvertFailOut(prevOut) == prevOut

\* charset::convert(const string&, string&, source, dest) = iconvert
ConvertString ==
    /\ cpc = "start"
    /\ form \in {"none", "buffer"}
    /\ form' = "buffer"
    /\ IF iconv_open(dst, src)
       THEN /\ outStr' = iconvert(input, src, dst)
            /\ cpc' = "done"
            /\ cerr' = "none"
       ELSE /\ outStr' = IconvertFailOut(outStr)
            /\ cpc' = "error"
            /\ cerr' = "charset_conv_error"
    /\ UNCHANGED <<stage, orig, src, dst, input, rdPos, inBuffer, prevIsInvalid,
                   out, discarded, failLog, passes>>
    /\ UNCHANGED convOthers

\* the caller converts the result back: convert(convert(s, A, B), B, A)
ConvertBack ==
    /\ cpc = "done"
    /\ stage = 1
    /\ src # dst
    /\ stage' = 2
    /\ input' = IF form = "stream" THEN out ELSE outStr
    /\ src' = dst
    /\ dst' = src
    /\ cpc' = "start"
    /\ rdPos' = 0
    /\ inBuffer' = <<>>
    /\ prevIsInvalid' = FALSE
    /\ out' = <<>>
    /\ outStr' = <<>>
    /\ discarded' = <<>>
    /\ failLog' = <<>>
    /\ passes' = 0
    /\ UNCHANGED <<form, orig, cerr>>
    /\ UNCHANGED convOthers

\* the string `out' holds this before the buffer form is called
PreviousOut == <<112, 114, 101, 118>>

----------------------------------------------------------------------------
(* relayField::parse *)

\* largest number of words of the text before the ';', apart from RelayExamples
MaxWords == 3

\* the vertical tab (0x0B), which a string of this language cannot hold as
\* an escape: the character is written as this name
VerticalTab == "<VT>"

\* the words the texts are made of
RelayWords ==
    {<<"f", "r", "o", "m">>, <<"b", "y">>, <<"w", "i", "t", "h">>, <<"i", "d">>,
     <<"f", "o", "r">>, <<"a">>, <<"i", "d", "l", "e">>,
     <<"(", "c">>, <<"d", ")">>, <<"(", "e", ")">>}

\* further texts before the ';'
RelayExamples ==
    {<<"f", "r", "o", "m", " ", "a", ".", "b", ".", "c", "o", "m", " ", "b", "y", " ", "c", ".", "d", ".", "c", "o", "m", " ", "w", "i", "t", "h", " ", "E", "S", "M", "T", "P", " ", "i", "d", " ", "1", "2", "3">>,
     <<"f", "r", "o", "m", " ", "a", ".", "b", ".", "c", "o", "m", " ", "(", "h", "e", "l", "o", ")", " ", "b", "y", " ", "c", ".", "d", ".", "c", "o", "m">>,
     <<"f", "r", "o", "m", " ", "a", " ", "(", "c", " ", "d", ")", "b", "y", " ", "b", " ", "v", "i", "a", " ", "x", " ", "f", "o", "r", " ", "y">>,
     <<"F", "R", "O", "M", " ", "a", " ", "B", "y", " ", "b", " ", "V", "I", "A", " ", "c", " ", "W", "I", "T", "H", " ", "d", " ", "I", "D", " ", "e", " ", "F", "O", "R", " ", "f">>,
     <<"b", "y", " ", "a", " ", "w", "i", "t", "h", " ", "b", " ", "w", "i", "t", "h", " ", "c", " ", "w", "i", "t", "h", " ", "d", " ", "f", "r", "o", "m", " ", "e">>,
     <<"f", "r", "o", "m", " ", "a", " ", "i", "d", "l", "e", " ", "b">>,
     <<"v", "i", "a", " ", "a", " ", "f", "r", "o", "m", " ", "b", " ", "v", "i", "a", " ", "c", " ", "f", "o", "r", " ", "d", " ", "f", "o", "r", " ", "e", " ", "i", "d", " ", "f", " ", "i", "d", " ", "g">>,
     <<"x", " ", "y", " ", "f", "r", "o", "m", " ", "a", " ", "(", "c", " ", "b", "y", " ", "d", ")", " ", "w", "i", "t", "h", " ", "(", "e", " ", "f", ")">>,
     <<"f", "r", "o", "m", " ", "a", ";", "b", " ", "b", "y", " ", "c">>,
     <<"\f", "f", "r", "o", "m", " ", "a", "\f", "b", VerticalTab, "b", "y", "\t", "c", "\n">>}

DateText == <<" ", "1", " ", "J", "a", "n", " ", "2", "0", "2", "0">>

\* the characters operator>> of a stream skips: those std::isspace accepts
\* in the "C" locale (space, \t, \n, \v, \f, \r)
IsSpace(c) == c \in {" ", "\t", "\n", VerticalTab, "\f", "\r"}

RECURSIVE JoinWith(_, _)
\* the strings of ws written one after the other, sep between two of them
JoinWith(ws, sep) ==
    IF Len(ws) = 0 THEN <<>>
    ELSE IF Len(ws) = 1 THEN ws[1]
    ELSE ws[1] \o sep \o JoinWith(Tail(ws), sep)

\* index of the first c in w, 0 when there is none: string::find
Find(w, c) ==
    IF \E i \in 1..Len(w) : w[i] = c
    THEN CHOOSE i \in 1..Len(w) : w[i] = c /\ \A j \in 1..(i - 1) : w[j] # c
    ELSE 0

\* index of the last c in w, 0 when there is none: the backward scan for ';'
FindLast(w, c) ==
    IF \E i \in 1..Len(w) : w[i] = c
    THEN CHOOSE i \in 1..Len(w) : w[i] = c /\ \A j \in (i + 1)..Len(w) : w[j] # c
    ELSE 0

\* a variant of SplitPoint that splits at the first ';'
SplitPoint_First(buf) == Find(buf, ";")

\* a variant of SplitPoint that takes a value with no ';' as text without date
SplitPoint_WholeValue(buf) ==
    IF FindLast(buf, ";") = 0 THEN Len(buf) + 1 ELSE FindLast(buf, ";")

\* lines 52-58: p after the backward scan, as an index of the value, 0 when
\* the scan ran past the start (p < pstart)
SplitPoint(buf) == FindLast(buf, ";")

RECURSIVE SkipSpace(_)
SkipSpace(t) == IF Len(t) > 0 /\ IsSpace(Head(t)) THEN SkipSpace(Tail(t)) ELSE t

RECURSIVE WordLen(_)
WordLen(t) == IF Len(t) = 0 \/ IsSpace(Head(t)) THEN 0 ELSE 1 + WordLen(Tail(t))

\* iss >> word: word is the next run of non-space characters, rest what is
\* left in the stream, ok whether a word was read
Extract(t) ==
    LET u == SkipSpace(t)
        n == WordLen(u)
    IN  [ok |-> n > 0, word |-> SubSeq(u, 1, n), rest |-> SubSeq(u, n + 1, Len(u))]

\* isStringEqualNoCase(s1, s2, n), s2 in lower case: the first n characters
\* of s1, case folded, are the first n characters of s2
isStringEqualNoCaseN(s1, s2, n) ==
    /\ Len(s1) >= n
    /\ \A i \in 1..n : ToLower(s1[i]) = s2[i]

\* the part a word starts when it is tested outside a comment
KeywordPart(word) ==
    IF isStringEqualNoCaseN(word, <<"f", "r", "o", "m">>, 4) THEN "From"
    ELSE IF isStringEqualNoCaseN(word, <<"b", "y">>, 2) THEN "By"
    ELSE IF isStringEqualNoCaseN(word, <<"v", "i", "a">>, 2) THEN "Via"
    ELSE IF isStringEqualNoCaseN(word, <<"w", "i", "t", "h">>, 2) THEN "With"
    ELSE IF isStringEqualNoCaseN(word, <<"i", "d">>, 2) THEN "Id"
    ELSE IF isStringEqualNoCaseN(word, <<"f", "o", "r">>, 2) THEN "For"
    ELSE "None"

\* the comment hack: a word read inside a comment that holds ')' is split
\* after the first ')': head goes to `previous', tail is the word from then on
CloseComment(word, inC) ==
    LET par == Find(word, ")") IN
    IF inC /\ par # 0
    THEN [closed |-> TRUE, head |-> <<SubSeq(word, 1, par)>>,
          word |-> SubSeq(word, par + 1, Len(word)), inC |-> FALSE]
    ELSE [closed |-> FALSE, head |-> <<>>, word |-> word, inC |-> inC]

\* inComment after a word that is no keyword: set when the word holds '('
OpensComment(word, inC) == IF Find(word, "(") # 0 THEN TRUE ELSE inC

\* the slot a flush stores into: switch (part)
FlushTarget(oldPart, newPart) == oldPart

\* case Part_With: m_with.push_back(value.str())
StoreWith(list, value) == Append(list, value)

\* a slot after a flush of `value' into the slot `target'
Slot(name, old, target, value) == IF target = name THEN value ELSE old

\* the slots as a record
Slots ==
    [from |-> m_from, by |-> m_by, via |-> m_via, with |-> m_with,
     id |-> m_id, for |-> m_for]

\* lines 152-179: store the accumulated words and start the part newPart
Flush(acc, newPart) ==
    LET target == IF part = "None" THEN "None" ELSE FlushTarget(part, newPart)
        value == JoinWith(acc, <<" ">>)
    IN  /\ m_from' = Slot("From", m_from, target, value)
        /\ m_by' = Slot("By", m_by, target, value)
        /\ m_via' = Slot("Via", m_via, target, value)
        /\ m_with' = IF target = "With" THEN StoreWith(m_with, value) ELSE m_with
        /\ m_id' = Slot("Id", m_id, target, value)
        /\ m_for' = Slot("For", m_for, target, value)
        /\ previous' = <<>>
        /\ part' = newPart

\* parse of a text with no ';': nothing is parsed
RelayParseNoSemicolon ==
    /\ rpc = "start"
    /\ SplitPoint(rbuffer) = 0
    /\ newPosition' = Len(rbuffer)
    /\ rpc' = "done"
    /\ UNCHANGED <<rbuffer, iss, previous, part, inComment, m_from, m_by, m_via,
                   m_with, m_id, m_for, m_date, prior, rlog>>
    /\ UNCHANGED relayOthers

\* parse of a text with a ';': the date is parsed, the stream is set up
RelayParseBegin ==
    /\ rpc = "start"
    /\ LET p == SplitPoint(rbuffer) IN
        /\ p # 0
        /\ m_date' = SubSeq(rbuffer, p + 1, Len(rbuffer))
        /\ iss' = SubSeq(rbuffer, 1, p - 1)
    /\ previous' = <<>>
    /\ part' = "None"
    /\ inComment' = FALSE
    /\ rpc' = "loop"
    /\ UNCHANGED <<rbuffer, m_from, m_by, m_via, m_with, m_id, m_for,
                   newPosition, prior, rlog>>
    /\ UNCHANGED relayOthers

\* one turn of the loop in which iss >> word gives a word
RelayReadWord ==
    /\ rpc = "loop"
    /\ Extract(iss).ok
    /\ LET x == Extract(iss)
           c == CloseComment(x.word, inComment)
           newPart == IF c.inC THEN "None" ELSE KeywordPart(c.word)
           keyword == newPart # "None"
           pushed == IF keyword THEN c.head ELSE c.head \o <<c.word>>
           acc == previous \o pushed
       IN  /\ iss' = x.rest
           /\ inComment' = IF keyword THEN c.inC ELSE OpensComment(c.word, c.inC)
           /\ IF keyword
              THEN Flush(acc, newPart)
              ELSE /\ previous' = acc
                   /\ UNCHANGED <<part, m_from, m_by, m_via, m_with, m_id, m_for>>
           /\ rlog' = Append(rlog, [word |-> x.word, kw |-> newPart,
                                     pushed |-> pushed, part |-> part,
                                     stored |-> IF keyword /\ part # "None"
                                                THEN JoinWith(acc, <<" ">>)
                                                ELSE <<"-">>])
    /\ UNCHANGED <<rpc, rbuffer, m_date, newPosition, prior>>
    /\ UNCHANGED relayOthers

\* the turn of the loop in which iss >> word fails: last flush, end of parse
RelayEndOfInput ==
    /\ rpc = "loop"
    /\ ~Extract(iss).ok
    /\ Flush(previous, "None")
    /\ newPosition' = Len(rbuffer)
    /\ rpc' = "done"
    /\ UNCHANGED <<rbuffer, iss, inComment, m_date, prior, rlog>>
    /\ UNCHANGED relayOthers

\* the slots of a newly constructed field
EmptySlots ==
    [from |-> <<>>, by |-> <<>>, via |-> <<>>, with |-> <<>>, id |-> <<>>,
     for |-> <<>>]

\* the slots of a field that was parsed before
UsedSlots ==
    [from |-> <<"o">>, by |-> <<"p">>, via |-> <<"q">>, with |-> <<<<"r">>>>,
     id |-> <<"s">>, for |-> <<"t">>]

\* the date of a field that was parsed before
UsedDate == <<"u">>

\* the date the field holds before the call
PriorDate == IF prior = UsedSlots THEN UsedDate ELSE <<>>

\* the texts before the ';'
RelayTexts ==
    {JoinWith(ws, <<" ">>) : ws \in SeqsUpTo(RelayWords, MaxWords)} \cup RelayExamples

----------------------------------------------------------------------------
(* relayField::generate *)

\* largest number of value texts generated in a row from one field
MaxRounds == 2

\* largest number of words of a text that is parsed and generated again,
\* apart from RelayExamples
MaxGenWords == 2

\* largest number of with entries of a field built through its accessors
MaxWith == 2

\* the text m_date.generate() gives for a date that was never parsed
DefaultDate == <<"1", " ", "J", "a", "n", " ", "1", "9", "7", "0">>

\* m_date.generate() for the date parsed from the text d: the date in its
\* one written form, which is the text without the white space before it
DateGenerate(d) == IF SkipSpace(d) = <<>> THEN DefaultDate ELSE SkipSpace(d)

\* a variant of GenSeparator that writes a space before the first part too
GenSeparator_Always(count) == <<" ">>

\* (count++ > 0 ? " " : "")
GenSeparator(count) == IF count > 0 THEN <<" ">> ELSE <<>>

\* oss << (count++ > 0 ? " " : "") << "<keyword> " << value
GenEmit(st, keyword, value) ==
    [oss |-> st.oss \o GenSeparator(st.count) \o keyword \o <<" ">> \o value,
     count |-> st.count + 1]

\* if (value.length()) oss << ...
GenOptional(st, keyword, value) ==
    IF Len(value) > 0 THEN GenEmit(st, keyword, value) ELSE st

RECURSIVE GenWith(_, _)
\* lines 198-202: every entry of m_with is written, in stored order
GenWith(st, list) ==
    IF list = <<>> THEN st
    ELSE GenWith(GenEmit(st, <<"w", "i", "t", "h">>, Head(list)), Tail(list))

\* lines 191-209: the string `result' for a field with the slots s and the
\* date parsed from the text date
generate(s, date) ==
    LET s0 == [oss |-> <<>>, count |-> 0]
        s1 == GenOptional(s0, <<"f", "r", "o", "m">>, s.from)
        s2 == GenOptional(s1, <<"b", "y">>, s.by)
        s3 == GenOptional(s2, <<"v", "i", "a">>, s.via)
        s4 == GenWith(s3, s.with)
        s5 == GenOptional(s4, <<"i", "d">>, s.id)
        s6 == GenOptional(s5, <<"f", "o", "r">>, s.for)
    IN  s6.oss \o <<";", " ">> \o DateGenerate(date)

\* the name headerField keeps for a relay field
RelayName == <<"R", "e", "c", "e", "i", "v", "e", "d">>

\* the values of maxLineLength and curLinePos generate is called with
MaxLineLengths == {20, 78}
CurLinePositions == {0, 7}

\* a call made by generate: the callee and its arguments (max and pos are -1,
\* text is empty and flags is "" for a callee that does not take them)
GenCall(fn, max, pos, text, flags) ==
    [fn |-> fn, max |-> max, pos |-> pos, text |-> text, flags |-> flags]

\* headerField::generate(os, maxLineLength, pos, &pos): writes "Name: " and
\* moves the column after it
HeaderFieldGenerate(name, pos) ==
    [os |-> name \o <<":", " ">>, pos |-> pos + Len(name) + 2]

\* the tokens of a text between its spaces; a token is never split
RECURSIVE FoldTokens(_, _)
FoldTokens(t, cur) ==
    IF t = <<>> THEN <<cur>>
    ELSE IF Head(t) = " " THEN <<cur>> \o FoldTokens(Tail(t), <<>>)
    ELSE FoldTokens(Tail(t), Append(cur, Head(t)))

\* the tokens are written one after the other; a token that does not fit on
\* the line goes to a new line, after CRLF and one space; the first token
\* stays on the line of the name
RECURSIVE FoldLines(_, _, _, _, _)
FoldLines(toks, max, pos, os, first) ==
    IF toks = <<>> THEN [os |-> os, pos |-> pos]
    ELSE LET w == Head(toks)
         IN  IF first
             THEN FoldLines(Tail(toks), max, pos + Len(w), os \o w, FALSE)
             ELSE IF pos + 1 + Len(w) > max
             THEN FoldLines(Tail(toks), max, 1 + Len(w),
                            os \o <<"\r", "\n", " ">> \o w, FALSE)
             ELSE FoldLines(Tail(toks), max, pos + 1 + Len(w),
                            os \o <<" ">> \o w, FALSE)

\* encodeAndFoldText(os, text(result), maxLineLength, pos, newLinePos,
\* forceNoEncoding): the text is written as it is, folded at its spaces
encodeAndFoldText(txt, maxLineLength, pos) ==
    FoldLines(FoldTokens(txt, <<>>), maxLineLength, pos, <<>>, TRUE)

\* the text written to os, without the line ends and the space after each
RECURSIVE Unfold(_)
Unfold(t) ==
    IF Len(t) >= 3 /\ SubSeq(t, 1, 3) = <<"\r", "\n", " ">>
    THEN <<" ">> \o Unfold(SubSeq(t, 4, Len(t)))
    ELSE IF t = <<>> THEN <<>>
    ELSE <<Head(t)>> \o Unfold(Tail(t))

\* lines 187-217: generate on the field as it is after parse, or as it was
\* built: the string `result', then the name, then the folded text
RelayGenerate ==
    /\ rpc \in {"done", "built"}
    /\ Len(gens) < MaxRounds
    /\ \E maxLineLength \in MaxLineLengths, curLinePos \in CurLinePositions :
          LET result == generate(Slots, m_date)
              h == HeaderFieldGenerate(RelayName, curLinePos)
              f == encodeAndFoldText(result, maxLineLength, h.pos)
          IN  /\ gens' = Append(gens, result)
              /\ gcalls' = << GenCall("date.generate", -1, -1, <<>>, ""),
                              GenCall("headerField::generate", maxLineLength,
                                      curLinePos, <<>>, ""),
                              GenCall("encodeAndFoldText", maxLineLength, h.pos,
                                      result, "forceNoEncoding") >>
              /\ gos' = h.os \o f.os
              /\ gnewLinePos' = f.pos
    /\ gfields' = Append(gfields, [slots |-> Slots, date |-> m_date,
                                   parsed |-> rpc = "done"])
    /\ rpc' = "generated"
    /\ UNCHANGED <<rbuffer, iss, previous, part, inComment, m_from, m_by, m_via,
                   m_with, m_id, m_for, m_date, newPosition, prior, rlog>>
    /\ UNCHANGED genOthers

\* the text generated last is given to parse of a newly constructed field;
\* the next generate writes to a new stream
RelayReparse ==
    /\ rpc = "generated"
    /\ rbuffer' = gens[Len(gens)]
    /\ rpc' = "start"
    /\ iss' = <<>> /\ previous' = <<>> /\ part' = "None" /\ inComment' = FALSE
    /\ m_from' = <<>> /\ m_by' = <<>> /\ m_via' = <<>> /\ m_with' = <<>>
    /\ m_id' = <<>> /\ m_for' = <<>> /\ m_date' = <<>>
    /\ newPosition' = -1
    /\ prior' = EmptySlots
    /\ rlog' = <<>>
    /\ gcalls' = <<>> /\ gos' = <<>> /\ gnewLinePos' = -1
    /\ UNCHANGED <<gens, gfields>>
    /\ UNCHANGED genOthers

\* the texts that are parsed and generated again
GenTexts ==
    {JoinWith(ws, <<" ">>) : ws \in SeqsUpTo(RelayWords, MaxGenWords)}
        \cup RelayExamples

\* the values the accessors give to the slots of a built field
FromValues == {<<>>, <<"a">>, <<"a", " ", "b">>, <<"b", "y">>, <<"(", "e", ")">>, <<"i", "d", "l", "e">>}
ByValues == {<<>>, <<"b">>}
ViaValues == {<<>>, <<"c">>}
WithValues == {<<>>, <<"d">>, <<"x", " ", "y">>}
IdValues == {<<>>, <<"e">>}
ForValues == {<<>>, <<"f">>}

\* the fields built through the accessors
BuiltFields ==
    [from : FromValues, by : ByValues, via : ViaValues,
     with : SeqsUpTo(WithValues, MaxWith), id : IdValues, for : ForValues]

----------------------------------------------------------------------------
(* copyFrom of relayField, contentEncodingField and mailboxListField *)

\* the concrete variants of a header field
Relay == "relay"
ContentEncoding == "contentEncoding"
MailboxList == "mailboxList"

\* a field: its concrete variant, the name kept by headerField, and the
\* members of the variant (the members of the other variants stay empty)
Field(variant, name, slots, date, value, params, list) ==
    [variant |-> variant, name |-> name, slots |-> slots, date |-> date,
     value |-> value, params |-> params, list |-> list]

\* the relay fields copyFrom is called with
CopyRelayFields ==
    {Field(Relay, n, [s EXCEPT !.with = w], d, "", <<>>, <<>>) :
        n \in {"Received", "X-Received"}, s \in {EmptySlots, UsedSlots},
        w \in SeqsUpTo({<<"r">>, <<"s">>}, MaxWith), d \in {<<>>, UsedDate}}

\* the content-encoding fields copyFrom is called with
CopyEncodingFields ==
    {Field(ContentEncoding, n, EmptySlots, <<>>, v, ps, <<>>) :
        n \in {"Content-Transfer-Encoding", "X-Encoding"},
        v \in {"7bit", "base64"}, ps \in {<<>>, <<"p=1">>}}

\* the mailbox-list fields copyFrom is called with
CopyMailboxFields ==
    {Field(MailboxList, n, EmptySlots, <<>>, "", <<>>, l) :
        n \in {"From", "To"}, l \in {<<>>, <<"a@x">>, <<"a@x", "b@y">>}}

CopyFields == CopyRelayFields \cup CopyEncodingFields \cup CopyMailboxFields

\* dynamic_cast<const T&>(field) gives a reference: field is a T
DynamicCastOk(variant, field) == field.variant = variant

\* a variant of AfterBadCast in which the name was copied before the cast
AfterBadCast_NameCopied(target, source) == [target EXCEPT !.name = source.name]

\* the target when dynamic_cast throws std::bad_cast: the cast is the first
\* statement of copyFrom, nothing was assigned
AfterBadCast(target, source) == target

\* vector::resize(n): the first n entries, empty strings added when short
Resize(list, n) ==
    [i \in 1..n |-> IF i <= Len(list) THEN list[i] ELSE <<>>]

\* a variant of CopyWith that resizes and copies nothing
CopyWith_ResizeOnly(targetList, sourceList) ==
    Resize(targetList, Len(sourceList))

\* m_with.resize(source.m_with.size()); std::copy(source.m_with.begin(),
\* source.m_with.end(), m_with.begin())
CopyWith(targetList, sourceList) ==
    LET resized == Resize(targetList, Len(sourceList))
    IN  [i \in 1..Len(resized) |-> sourceList[i]]

\* headerField::copyFrom(field): the name kept by the base class is copied
HeaderFieldCopyFrom(target, source) == [target EXCEPT !.name = source.name]

\* parameterizedHeaderField::copyFrom(field): the parameters are copied, then
\* the base class copies
ParameterizedCopyFrom(target, source) ==
    HeaderFieldCopyFrom([target EXCEPT !.params = source.params], source)

\* relayField::copyFrom after the cast, lines 224-235
RelayCopy(target, source) ==
    HeaderFieldCopyFrom(
        [target EXCEPT
            !.slots = [from |-> source.slots.from,
                       via |-> source.slots.via,
                       by |-> source.slots.by,
                       id |-> source.slots.id,
                       for |-> source.slots.for,
                       with |-> CopyWith(target.slots.with, source.slots.with)],
            !.date = source.date],
        source)

\* contentEncodingField::copyFrom after the cast, lines 56-58
EncodingCopy(target, source) ==
    ParameterizedCopyFrom([target EXCEPT !.value = source.value], source)

\* mailboxListField::copyFrom after the cast, lines 53-55
MailboxCopy(target, source) ==
    HeaderFieldCopyFrom([target EXCEPT !.list = source.list], source)

\* copyFrom of the variant: the cast, then the copy, which gives `copied'
CopyFromCall(variant, copied) ==
    /\ cfPc = "start"
    /\ cfTarget.variant = variant
    /\ IF DynamicCastOk(variant, cfSource)
       THEN /\ cfTarget' = copied
            /\ cfErr' = "none"
            /\ cfPc' = "copied"
            /\ cfCopied' = [target |-> copied, source |-> cfSource]
       ELSE /\ cfTarget' = AfterBadCast(cfTarget, cfSource)
            /\ cfErr' = "bad_cast"
            /\ cfPc' = "error"
            /\ UNCHANGED cfCopied
    /\ UNCHANGED <<cfSource, cfOrig>>
    /\ UNCHANGED copyOthers

RelayCopyFrom == CopyFromCall(Relay, RelayCopy(cfTarget, cfSource))

ContentEncodingCopyFrom ==
    CopyFromCall(ContentEncoding, EncodingCopy(cfTarget, cfSource))

MailboxListCopyFrom == CopyFromCall(MailboxList, MailboxCopy(cfTarget, cfSource))

\* a later change of a field through its accessors
Changed(f) ==
    IF f.variant = Relay
    THEN [f EXCEPT !.slots.from = <<"z">>, !.slots.with = Append(@, <<"z">>),
                   !.date = <<"z">>]
    ELSE IF f.variant = ContentEncoding
    THEN [f EXCEPT !.value = "x-changed", !.params = Append(@, "z=1")]
    ELSE [f EXCEPT !.list = Append(@, "z@z")]

\* the target is changed after the copy
ChangeTarget ==
    /\ cfPc = "copied"
    /\ cfTarget' = Changed(cfTarget)
    /\ cfPc' = "modified"
    /\ UNCHANGED <<cfSource, cfErr, cfOrig, cfCopied>>
    /\ UNCHANGED copyOthers

\* the source is changed after the copy
ChangeSource ==
    /\ cfPc = "copied"
    /\ cfSource' = Changed(cfSource)
    /\ cfPc' = "modified"
    /\ UNCHANGED <<cfTarget, cfErr, cfOrig, cfCopied>>
    /\ UNCHANGED copyOthers

----------------------------------------------------------------------------
(* bodyPart::parse *)

\* longest buffer given to bodyPart::parse
MaxPartLen == 4

\* the characters of the buffers given to bodyPart::parse
PartChars == {"h", "\r", "\n"}

RECURSIVE LineEnd(_, _, _)
\* the position after the end of the line that holds position pos
LineEnd(buf, pos, end) ==
    IF pos >= end THEN end
    ELSE IF buf[pos + 1] = "\n" THEN pos + 1
    ELSE LineEnd(buf, pos + 1, end)

RECURSIVE HeaderStop(_, _, _)
\* header::parse(buffer, pos, end, &pos): the position after the blank line
\* that ends the header block, end when there is none
HeaderStop(buf, pos, end) ==
    IF pos >= end THEN end
    ELSE IF buf[pos + 1] = "\n" THEN pos + 1
    ELSE IF buf[pos + 1] = "\r" /\ pos + 1 < end /\ buf[pos + 2] = "\n" THEN pos + 2
    ELSE HeaderStop(buf, LineEnd(buf, pos, end), end)

\* a variant of BodyStart in which the body parser starts at position again
BodyStart_Position(pos, position) == position

\* m_body.parse(buffer, pos, end, NULL): the body starts at the local pos
BodyStart(pos, position) == pos

\* lines 37-38: the header parser is called first, from position
PartParseHeader ==
    /\ bpPc = "start"
    /\ bpPos' = HeaderStop(bpBuffer, bpPosition, bpEnd)
    /\ bpCalls' = Append(bpCalls, [parser |-> "header", from |-> bpPosition,
                                   end |-> bpEnd,
                                   stop |-> HeaderStop(bpBuffer, bpPosition, bpEnd)])
    /\ bpPc' = "header"
    /\ UNCHANGED <<bpBuffer, bpPosition, bpEnd, bpWantPos, bpNewPosition>>
    /\ UNCHANGED partOthers

\* line 41: the body parser is called on the rest
PartParseBody ==
    /\ bpPc = "header"
    /\ bpCalls' = Append(bpCalls, [parser |-> "body",
                                   from |-> BodyStart(bpPos, bpPosition),
                                   end |-> bpEnd, stop |-> bpEnd])
    /\ bpPc' = "body"
    /\ UNCHANGED <<bpBuffer, bpPosition, bpEnd, bpWantPos, bpPos, bpNewPosition>>
    /\ UNCHANGED partOthers

\* lines 43-44: the new position is reported when it is asked for
PartParseReturn ==
    /\ bpPc = "body"
    /\ bpNewPosition' = IF bpWantPos THEN bpEnd ELSE bpNewPosition
    /\ bpPc' = "done"
    /\ UNCHANGED <<bpBuffer, bpPosition, bpEnd, bpWantPos, bpPos, bpCalls>>
    /\ UNCHANGED partOthers

----------------------------------------------------------------------------
(* bodyPart::clone *)

\* largest number of nodes of the part trees that exist before any clone()
MaxNodes == 3

\* largest number of clone() calls in a row
MaxClones == 2

\* the null pointer
NULL == 0

\* the header values of the nodes
PartHeaders == {"A", "B"}

\* the children of node i when parent[j] is the parent of node j: in the
\* order of their addresses
ChildrenOf(parents, i) ==
    LET kids == {j \in 1..Len(parents) : parents[j] = i}
        Ordered[S \in SUBSET kids] ==
            IF S = {} THEN <<>>
            ELSE LET least == CHOOSE x \in S : \A y \in S : x <= y
                 IN  <<least>> \o Ordered[S \ {least}]
    IN  Ordered[kids]

\* the part trees with n nodes: node 1 is the root, every other node hangs
\* under a node with a smaller address
TreesOf(n) ==
    {[i \in 1..n |-> [parent |-> parents[i],
                      children |-> ChildrenOf(parents, i),
                      header |-> headers[i]]] :
        parents \in {p \in [1..n -> 0..n] :
                        p[1] = NULL /\ \A i \in 2..n : p[i] \in 1..(i - 1)},
        headers \in [1..n -> PartHeaders]}

\* a variant of CloneParent that keeps the parent of the cloned node
CloneParent_Kept(h, n) == h[n].parent

\* bodyPart::bodyPart(): m_parent(NULL), and p->m_parent = NULL
CloneParent(h, n) == NULL

RECURSIVE clone(_, _)
RECURSIVE BodyAssign(_, _, _)
\* bodyPart::clone() of the node n in the heap h: a new object, its parent
\* NULL, its header a copy, its body assigned from the body of n.  Gives the
\* heap after the call and the address returned.
clone(h, n) ==
    LET p == Len(h) + 1
        allocated == Append(h, [parent |-> CloneParent(h, n),
                                children |-> <<>>,
                                header |-> h[n].header])
    IN  BodyAssign(allocated, p, h[n].children)

\* p->m_body = m_body: body::operator= clones every child part of the source
\* body and adds the copy to the body of p, with p as its parent
BodyAssign(h, p, kids) ==
    IF kids = <<>> THEN [heap |-> h, ptr |-> p]
    ELSE LET r == clone(h, Head(kids))
             linked == [r.heap EXCEPT ![r.ptr].parent = p,
                                      ![p].children = Append(@, r.ptr)]
         IN  BodyAssign(linked, p, Tail(kids))

\* clone() is called on a node of the heap
PartClone ==
    /\ clCount < MaxClones
    /\ Len(heap) > 0
    /\ \E n \in 1..Len(heap) :
          /\ heap' = clone(heap, n).heap
          /\ clResult' = clone(heap, n).ptr
          /\ clNode' = n
    /\ heapBefore' = heap
    /\ clCount' = clCount + 1
    /\ UNCHANGED treeOthers

----------------------------------------------------------------------------
(* SMTPTransport: connect, disconnect, noop and the two send methods *)

\* most sockets one transport creates
MaxSockets == 2

\* longest recipient list given to send(expeditor, recipients, ...)
MaxRcpt == 2

\* longest message given to send, in bytes
MaxMsgLen == 2

\* most reads the input stream given to send needs to reach its end
MaxReads == 2

\* char buffer[65536] of send
BufferSize == 65536

\* platformDependant::getHandler()->getHostName()
HostName == "host"

\* the replies of the server, as readResponse returns them: one line without
\* its CRLF (readResponse goes on reading while the last line it holds has
\* fewer than three characters)
Responses ==
    { <<"2", "2", "0", " ", "o", "k">>, <<"2", "5", "0", " ", "o", "k">>,
      <<"3", "3", "4", " ", "o", "k">>, <<"2", "3", "5", " ", "o", "k">>,
      <<"3", "5", "4", " ", "o", "k">>, <<"5", "5", "0", " ", "o", "k">> }

\* the character codes of the characters of the replies
Ord(c) ==
    CASE c = "0" -> 48 [] c = "1" -> 49 [] c = "2" -> 50 [] c = "3" -> 51
      [] c = "4" -> 52 [] c = "5" -> 53 [] c = "6" -> 54 [] c = "7" -> 55
      [] c = "8" -> 56 [] c = "9" -> 57 [] c = " " -> 32 [] c = "k" -> 107
      [] c = "o" -> 111

\* SMTPTransport::responseCode
responseCode(response) ==
    IF Len(response) >= 3
    THEN (Ord(response[1]) - Ord("0")) * 100
         + (Ord(response[2]) - Ord("0")) * 10
         + (Ord(response[3]) - Ord("0"))
    ELSE 0

\* the transport object and what it owns: sockets[i] and handlers[i] are the
\* objects the socket factory and the time-out handler factory created
Transport ==
    [m_socket |-> m_socket, m_authentified |-> m_authentified,
     m_extendedSMTP |-> m_extendedSMTP, m_timeoutHandler |-> m_timeoutHandler,
     sockets |-> sockets, handlers |-> handlers, trace |-> trace]

\* the transport without the history of the running call
Snapshot(t) ==
    [m_socket |-> t.m_socket, m_authentified |-> t.m_authentified,
     m_extendedSMTP |-> t.m_extendedSMTP,
     m_timeoutHandler |-> t.m_timeoutHandler,
     sockets |-> t.sockets, handlers |-> t.handlers]

\* one more event in the history of the running call
Emit(t, e) == [t EXCEPT !.trace = Append(@, e)]

\* m_socket->send(buffer)
SocketSend(t, buffer) ==
    Emit(t, [k |-> "send", sock |-> t.m_socket, data |-> buffer])

\* m_socket->sendRaw(bytes, count)
SocketSendRaw(t, bytes) ==
    Emit(t, [k |-> "sendRaw", sock |-> t.m_socket, bytes |-> bytes])

\* SMTPTransport::sendRequest
sendRequest(t, buffer, end) ==
    IF end THEN SocketSend(SocketSend(t, buffer), "\r\n")
    ELSE SocketSend(t, buffer)

\* SMTPTransport::isConnected
isConnected(t) ==
    /\ t.m_socket # NULL
    /\ t.sockets[t.m_socket].connected
    /\ t.m_authentified

\* delete (m_timeoutHandler) of internalDisconnect
DeleteHandler_Kept(t) == t.handlers

DeleteHandler(t) ==
    IF t.m_timeoutHandler = NULL THEN t.handlers
    ELSE [t.handlers EXCEPT ![t.m_timeoutHandler].deleted = TRUE]

\* the flags internalDisconnect leaves
ClearedFlags_AuthKept(t) ==
    [m_authentified |-> t.m_authentified, m_extendedSMTP |-> FALSE]

ClearedFlags(t) == [m_authentified |-> FALSE, m_extendedSMTP |-> FALSE]

\* SMTPTransport::internalDisconnect
internalDisconnect(t) ==
    LET q == sendRequest(t, "QUIT", TRUE)
        d == Emit(q, [k |-> "socket", op |-> "disconnect", sock |-> q.m_socket])
    IN  [d EXCEPT !.sockets[q.m_socket] = [connected |-> FALSE, deleted |-> TRUE],
                  !.m_socket = NULL,
                  !.handlers = DeleteHandler(q),
                  !.m_timeoutHandler = NULL,
                  !.m_authentified = ClearedFlags(q).m_authentified,
                  !.m_extendedSMTP = ClearedFlags(q).m_extendedSMTP]

\* throw exceptions::what()
Throw(t, what) == Emit(t, [k |-> "throw", what |-> what])

\* throw exceptions::command_error(command, response)
ThrowCommandError(t, command) ==
    Emit(t, [k |-> "throw", what |-> "command_error", command |-> command])

\* the call returns normally
Return(t) == Emit(t, [k |-> "return"])

\* the transport becomes t and the running call goes to position pc ("done":
\* it has returned or thrown)
Becomes(t, pc) ==
    /\ m_socket' = t.m_socket
    /\ m_authentified' = t.m_authentified
    /\ m_extendedSMTP' = t.m_extendedSMTP
    /\ m_timeoutHandler' = t.m_timeoutHandler
    /\ sockets' = t.sockets
    /\ handlers' = t.handlers
    /\ trace' = t.trace
    /\ tpc' = pc

\* the arguments and locals of send
SendLocals(e, r, i, s, n, p) ==
    /\ expeditor' = e
    /\ recipients' = r
    /\ it' = i
    /\ is' = s
    /\ size' = n
    /\ progress' = p

NoSendLocals == SendLocals("", <<>>, 0, <<>>, 0, FALSE)

sendLocals == <<expeditor, recipients, it, is, size, progress>>

\* a call begins: the history starts again with the call and its arguments
Called ==
    /\ tpc = "idle"
    /\ atCall' = Snapshot(Transport)
    /\ UNCHANGED <<needAuth, timeoutFactory>>

Begin(call) == [Transport EXCEPT !.trace = <<call>>]

\* the caller goes on after a call: the history of the call is dropped
CallerResumes ==
    /\ tpc = "done"
    /\ tpc' = "idle"
    /\ trace' = <<>>
    /\ atCall' = Snapshot(Transport)
    /\ NoSendLocals
    /\ UNCHANGED <<m_socket, m_authentified, m_extendedSMTP, m_timeoutHandler,
                   sockets, handlers, needAuth, timeoutFactory, smtpOthers>>

\* readResponse returned `response' to the call waiting at position pc
Received(pc, response) ==
    /\ tpc = pc
    /\ response \in Responses
    /\ UNCHANGED <<atCall, needAuth, timeoutFactory>>

Read(response) == Emit(Transport, [k |-> "recv", response |-> response])

----------------------------------------------------------------------------
(* SMTPTransport::connect *)

\* m_timeoutHandler = tof->create(), when the session names a factory
CreateHandler(t) ==
    IF timeoutFactory
    THEN [t EXCEPT !.handlers = Append(@, [deleted |-> FALSE]),
                   !.m_timeoutHandler = Len(t.handlers) + 1]
    ELSE t

\* m_socket = sf->create(); m_socket->connect(address, port)
CreateSocket(t) ==
    LET s == Len(t.sockets) + 1
    IN  Emit([t EXCEPT !.sockets = Append(@, [connected |-> TRUE,
                                              deleted |-> FALSE]),
                       !.m_socket = s],
             [k |-> "socket", op |-> "connect", sock |-> s])

\* connect(), up to the first readResponse
ConnectCall ==
    /\ Called
    /\ LET t == Begin([k |-> "call", name |-> "connect"])
       IN  IF isConnected(t)
           THEN Becomes(Throw(t, "already_connected"), "done")
           ELSE /\ Len(sockets) < MaxSockets
                /\ Becomes(CreateSocket(CreateHandler(t)), "greeting")
    /\ NoSendLocals
    /\ UNCHANGED smtpOthers

\* connect(): the greeting was read
ConnectGreeting ==
    \E response \in Responses :
        /\ Received("greeting", response)
        /\ LET t == Read(response)
           IN  IF responseCode(response) # 220
               THEN Becomes(Throw(internalDisconnect(t),
                                  "connection_greeting_error"), "done")
               ELSE Becomes(sendRequest(t, "EHLO " \o HostName, TRUE), "ehlo")
        /\ UNCHANGED <<sendLocals, smtpOthers>>

\* whether the `Authentication' block of connect() refuses a session
AuthNeedsExtended_Never(t) == FALSE

AuthNeedsExtended(t) == ~t.m_extendedSMTP

\* connect() after the identification: the authentication is started, or is
\* not needed and connect() returns
Authentication(t) ==
    IF needAuth
    THEN IF AuthNeedsExtended(t)
         THEN Becomes(ThrowCommandError(internalDisconnect(t), "AUTH"), "done")
         ELSE Becomes(sendRequest(t, "AUTH CRAM-MD5", TRUE), "auth")
    ELSE Becomes(Return([t EXCEPT !.m_authentified = TRUE]), "done")

\* connect(): the answer to EHLO was read
ConnectEhlo ==
    \E response \in Responses :
        /\ Received("ehlo", response)
        /\ LET t == Read(response)
           IN  IF responseCode(response) # 250
               THEN Becomes(sendRequest(t, "HELO " \o HostName, TRUE), "helo")
               ELSE Authentication([t EXCEPT !.m_extendedSMTP = TRUE])
        /\ UNCHANGED <<sendLocals, smtpOthers>>

\* connect(): the answer to HELO was read
ConnectHelo ==
    \E response \in Responses :
        /\ Received("helo", response)
        /\ LET t == Read(response)
           IN  IF responseCode(response) # 250
               THEN Becomes(Throw(internalDisconnect(t),
                                  "connection_greeting_error"), "done")
               ELSE Authentication([t EXCEPT !.m_extendedSMTP = FALSE])
        /\ UNCHANGED <<sendLocals, smtpOthers>>

\* what connect() sends as the answer to the challenge: the base64 text of
\* the user name and the HMAC-MD5 of the decoded challenge
CramMd5Answer(response) == "<cram-md5 answer>"

\* connect(): the answer to AUTH CRAM-MD5 was read; any answer but 334 ends
\* the loop over the methods in `case End'
ConnectAuth ==
    \E response \in Responses :
        /\ Received("auth", response)
        /\ LET t == Read(response)
           IN  IF responseCode(response) = 334
               THEN Becomes(sendRequest(t, CramMd5Answer(response), TRUE),
                            "authAnswer")
               ELSE Becomes(Throw(t, "authentication_error"), "done")
        /\ UNCHANGED <<sendLocals, smtpOthers>>

\* connect(): the server's verdict on the answer was read
ConnectAuthAnswer ==
    \E response \in Responses :
        /\ Received("authAnswer", response)
        /\ LET t == Read(response)
           IN  IF responseCode(response) = 235
               THEN Becomes(Return([t EXCEPT !.m_authentified = TRUE]), "done")
               ELSE Becomes(Throw(internalDisconnect(t),
                                  "authentication_error"), "done")
        /\ UNCHANGED <<sendLocals, smtpOthers>>

\* the positions at which a call waits in readResponse
Waiting ==
    {"greeting", "ehlo", "helo", "auth", "authAnswer", "noop", "mail", "rcpt",
     "data", "end"}

\* readResponse: the time-out handler reports a time-out and does not ask
\* for more time
ReadTimeout ==
    /\ tpc \in Waiting
    /\ m_timeoutHandler # NULL
    /\ Becomes(Throw(Transport, "operation_timed_out"), "done")
    /\ UNCHANGED <<atCall, needAuth, timeoutFactory, sendLocals, smtpOthers>>

----------------------------------------------------------------------------
(* SMTPTransport::disconnect and noop *)

DisconnectCall ==
    /\ Called
    /\ LET t == Begin([k |-> "call", name |-> "disconnect"])
       IN  IF ~isConnected(t)
           THEN Becomes(Throw(t, "not_connected"), "done")
           ELSE Becomes(Return(internalDisconnect(t)), "done")
    /\ NoSendLocals
    /\ UNCHANGED smtpOthers

\* ~SMTPTransport(): disconnect() when connected, internalDisconnect() when
\* there is a socket all the same, nothing otherwise; no call follows
SMTPTransportDestructor ==
    /\ Called
    /\ LET t == Begin([k |-> "call", name |-> "~SMTPTransport"])
       IN  IF isConnected(t)
           THEN Becomes(Return(internalDisconnect(t)), "destroyed")
           ELSE IF t.m_socket # NULL
           THEN Becomes(Return(internalDisconnect(t)), "destroyed")
           ELSE Becomes(Return(t), "destroyed")
    /\ NoSendLocals
    /\ UNCHANGED smtpOthers

\* a member of the socket is called through m_socket = NULL: the process
\* is ended by the operating system
Crash(t) == Becomes(Emit(t, [k |-> "crash"]), "crashed")

\* noop(), up to readResponse
NoopCall ==
    /\ Called
    /\ LET t == Begin([k |-> "call", name |-> "noop"])
       IN  IF t.m_socket = NULL
           THEN Crash(t)
           ELSE Becomes(SocketSend(t, "NOOP"), "noop")
    /\ NoSendLocals
    /\ UNCHANGED smtpOthers

\* noop(): the answer was read
NoopReply ==
    \E response \in Responses :
        /\ Received("noop", response)
        /\ LET t == Read(response)
           IN  IF responseCode(response) # 250
               THEN Becomes(ThrowCommandError(t, "NOOP"), "done")
               ELSE Becomes(Return(t), "done")
        /\ UNCHANGED <<sendLocals, smtpOthers>>

----------------------------------------------------------------------------
(* SMTPTransport::send(expeditor, recipients, is, size, progress) *)

\* the mailboxes recipient lists are made of
AllRecipients == <<"b@y", "c@z", "d@w", "e@v">>

\* the bytes of the messages
DataChars == {".", "\n", "a"}

\* std::find(pos, end, c): the first index from pos on that holds c, the
\* index after the last one when there is none
StdFind(buffer, pos, c) ==
    LET S == {i \in pos..Len(buffer) : buffer[i] = c}
    IN  IF S = {} THEN Len(buffer) + 1
        ELSE CHOOSE i \in S : \A j \in S : i <= j

\* whether the '.' found at pos is doubled
AtLineStart_AnyLineFeed(buffer, pos) ==
    \E i \in 1..Len(buffer) : buffer[i] = "\n"

AtLineStart(buffer, pos) == pos > 1 /\ buffer[pos - 1] = "\n"

\* the inner loop of send over one buffer read from the stream, and the
\* sendRaw of what is left after it
RECURSIVE SendBuffer(_, _, _, _)
SendBuffer(t, buffer, start, pos) ==
    LET found == StdFind(buffer, pos, ".")
    IN  IF found = Len(buffer) + 1
        THEN SocketSendRaw(t, SubSeq(buffer, start, Len(buffer)))
        ELSE IF AtLineStart(buffer, found)
             THEN SendBuffer(SocketSendRaw(SocketSendRaw(t,
                                 SubSeq(buffer, start, found - 1)), <<".">>),
                             buffer, found, found + 1)
             ELSE SendBuffer(t, buffer, start, found + 1)

\* a variant of Max that keeps its first argument
Max_KeepFirst(a, b) == a

\* std::max
Max(a, b) == IF a < b THEN b ELSE a

\* progress->progress(current, total) and the like, when a listener is given
Notify(t, listener, op, cur, tot) ==
    IF listener
    THEN Emit(t, [k |-> "progress", op |-> op, current |-> cur, total |-> tot])
    ELSE t

\* the loop `while (!is.eof())' of send: every element of stream is what one
\* is.read(buffer, sizeof(buffer)) puts into the buffer
RECURSIVE SendStream(_, _, _, _, _)
SendStream(t, stream, cur, tot, listener) ==
    IF stream = <<>> THEN [t |-> t, current |-> cur, total |-> tot]
    ELSE LET read == Len(Head(stream))
             sent == SendBuffer(t, Head(stream), 1, 1)
             c == cur + read
             m == IF listener THEN Max(tot, c) ELSE tot
         IN  SendStream(Notify(sent, listener, "progress", c, m),
                        Tail(stream), c, m, listener)

\* the end of the data: "\r\n.\r\n"
Terminator == <<"\r", "\n", ".", "\r", "\n">>

\* send from `int current = 0, total = size' to the readResponse after the
\* terminator
SendMessageData(t, stream, n, listener) ==
    LET started == Notify(t, listener, "start", 0, n)
        looped == SendStream(started, stream, 0, n, listener)
        stopped == Notify(looped.t, listener, "stop", looped.current,
                          looped.total)
    IN  SocketSendRaw(stopped, Terminator)

\* a command of send was not answered as expected
CommandFailed(t, command) ==
    Becomes(ThrowCommandError(internalDisconnect(t), command), "done")

\* which of the two argument checks of send comes first
ArgumentError_ExpeditorFirst(e, r) ==
    IF e = "" THEN "no_expeditor"
    ELSE IF r = <<>> THEN "no_recipient" ELSE "none"

ArgumentError(e, r) ==
    IF r = <<>> THEN "no_recipient"
    ELSE IF e = "" THEN "no_expeditor" ELSE "none"

\* send(expeditor, recipients, is, size, progress) up to the first
\* readResponse, on the transport t
SendBegin(t, e, r, stream, n, listener) ==
    IF ArgumentError(e, r) # "none"
    THEN /\ Becomes(Throw(t, ArgumentError(e, r)), "done")
         /\ SendLocals(e, r, 0, stream, n, listener)
    ELSE /\ IF t.m_socket = NULL
            THEN Crash(t)
            ELSE Becomes(sendRequest(t, "MAIL FROM: <" \o e \o ">", TRUE),
                         "mail")
         /\ SendLocals(e, r, 0, stream, n, listener)

\* the ways a stream gives the bytes of str in at most n reads: every read
\* but the last gives at least one byte, and the last may give none (a
\* stream that sees its end only then)
RECURSIVE StreamsOf(_, _)
StreamsOf(str, n) ==
    IF n = 0 THEN IF str = <<>> THEN {<<>>} ELSE {}
    ELSE (IF str = <<>> THEN {<<>>} ELSE {})
         \cup (IF Len(str) <= BufferSize THEN {<<str>>} ELSE {})
         \cup UNION {{<<SubSeq(str, 1, k)>> \o s :
                         s \in StreamsOf(SubSeq(str, k + 1, Len(str)), n - 1)
                                 \ {<<>>}} :
                     k \in 1..Min(BufferSize, Len(str))}

\* the input streams over the messages of at most n bytes
StreamsUpTo(n) ==
    UNION {StreamsOf(str, MaxReads) : str \in SeqsUpTo(DataChars, n)}

\* the recipient lists of at most n mailboxes
RecipientsUpTo(n) == {SubSeq(AllRecipients, 1, k) : k \in 0..n}

SendCall(expeditors, lists, streams, sizes, listeners) ==
    \E e \in expeditors, r \in lists, stream \in streams, n \in sizes,
       listener \in listeners :
        /\ Called
        /\ SendBegin(Begin([k |-> "call", name |-> "send", expeditor |-> e,
                            recipients |-> r, is |-> stream, size |-> n,
                            progress |-> listener]),
                     e, r, stream, n, listener)
        /\ UNCHANGED smtpOthers

\* "RCPT TO: <" + (*it).email() + ">" for the recipient the iterator is at
RcptCommand(r, i) == "RCPT TO: <" \o r[i] \o ">"

\* send: the answer to MAIL FROM was read (the recipient list is not empty)
SendMail ==
    \E response \in Responses :
        /\ Received("mail", response)
        /\ LET t == Read(response)
           IN  IF responseCode(response) # 250
               THEN CommandFailed(t, "MAIL") /\ UNCHANGED sendLocals
               ELSE /\ Becomes(sendRequest(t, RcptCommand(recipients, 1), TRUE),
                               "rcpt")
                    /\ it' = 1
                    /\ UNCHANGED <<expeditor, recipients, is, size, progress>>
        /\ UNCHANGED smtpOthers

\* what send does after a recipient was accepted
AfterRcpt_DataAtOnce(t) ==
    Becomes(sendRequest(t, "DATA", TRUE), "data") /\ it' = it + 1

AfterRcpt(t) ==
    IF it + 1 > Len(recipients)
    THEN Becomes(sendRequest(t, "DATA", TRUE), "data") /\ it' = it + 1
    ELSE /\ Becomes(sendRequest(t, RcptCommand(recipients, it + 1), TRUE),
                    "rcpt")
         /\ it' = it + 1

\* send: the answer to a RCPT TO was read
SendRcpt ==
    \E response \in Responses :
        /\ Received("rcpt", response)
        /\ LET t == Read(response)
           IN  IF responseCode(response) # 250
               THEN CommandFailed(t, "RCPT TO") /\ UNCHANGED sendLocals
               ELSE /\ AfterRcpt(t)
                    /\ UNCHANGED <<expeditor, recipients, is, size, progress>>
        /\ UNCHANGED smtpOthers

\* send: the answer to DATA was read; on 354 the whole message is sent
SendData ==
    \E response \in Responses :
        /\ Received("data", response)
        /\ LET t == Read(response)
           IN  IF responseCode(response) # 354
               THEN CommandFailed(t, "DATA") /\ UNCHANGED sendLocals
               ELSE /\ Becomes(SendMessageData(t, is, size, progress), "end")
                    /\ is' = <<>>
                    /\ UNCHANGED <<expeditor, recipients, it, size, progress>>
        /\ UNCHANGED smtpOthers

\* send: the answer to the terminator was read
SendEnd ==
    \E response \in Responses :
        /\ Received("end", response)
        /\ LET t == Read(response)
           IN  IF responseCode(response) # 250
               THEN CommandFailed(t, "DATA")
               ELSE Becomes(Return(t), "done")
        /\ UNCHANGED <<sendLocals, smtpOthers>>

----------------------------------------------------------------------------
(* SMTPTransport::send(message, progress) *)

\* a header field that find() does not find: no mailbox, no address list
NoMailbox == [present |-> FALSE, value |-> ""]

Absent == [present |-> FALSE, value |-> <<>>]

Present(v) == [present |-> TRUE, value |-> v]

\* extractMailboxes: every address of the list is appended
extractMailboxes(r, list) == r \o list

\* the field is looked up; no_such_field is caught and nothing is appended
ExtractField(r, field) ==
    IF field.present THEN extractMailboxes(r, field.value) ELSE r

\* the order in which send(message) reads the recipient fields
RecipientsOf_BccFirst(msg) ==
    ExtractField(ExtractField(ExtractField(<<>>, msg.bcc), msg.cc), msg.to)

RecipientsOf(msg) ==
    ExtractField(ExtractField(ExtractField(<<>>, msg.to), msg.cc), msg.bcc)

\* utility::inputStreamStringAdapter over the generated message: each read
\* gives the next BufferSize bytes of the string
RECURSIVE StringStream(_)
StringStream(str) ==
    IF str = <<>> THEN <<>>
    ELSE <<SubSeq(str, 1, Min(BufferSize, Len(str)))>>
         \o StringStream(SubSeq(str, Min(BufferSize, Len(str)) + 1, Len(str)))

\* what message::generate writes
MessageText == <<"a", "\n", ".">>

\* the messages given to send(message): the From field absent, empty or set;
\* To, Cc and Bcc absent or holding mailboxes; text is what generate writes
Messages ==
    {[from |-> f, to |-> t, cc |-> c, bcc |-> b, text |-> x] :
        f \in {NoMailbox, Present(""), Present("a@x")},
        t \in {Absent, Present(<<>>), Present(<<"b@y">>)},
        c \in {Absent, Present(<<"c@z">>)},
        b \in {Absent, Present(<<"d@w">>)},
        x \in {MessageText}}

SendMessageCall(messages, listeners) ==
    \E msg \in messages, listener \in listeners :
        /\ Called
        /\ LET t == Begin([k |-> "call", name |-> "send(message)",
                           msg |-> msg, progress |-> listener])
           IN  IF ~msg.from.present
               THEN /\ Becomes(Throw(t, "no_expeditor"), "done")
                    /\ NoSendLocals
               ELSE SendBegin(t, msg.from.value, RecipientsOf(msg),
                              StringStream(msg.text), Len(msg.text), listener)
        /\ UNCHANGED smtpOthers

----------------------------------------------------------------------------
(* word and charset: constructors, assignments and charset::parse *)

\* largest length of a word's text
MaxBufLen == 1

\* charsets::US_ASCII
US_ASCII == <<"u", "s", "-", "a", "s", "c", "i", "i">>

\* the charsets a platform may have as its locale charset
LocaleCharsets ==
    {US_ASCII, <<"u", "t", "f", "-", "8">>,
     <<"i", "s", "o", "-", "8", "8", "5", "9", "-", "1">>}

\* the charsets given to a constructor or an assignment
GivenCharsets == LocaleCharsets \cup {<<"k", "o", "i", "8", "-", "r">>}

\* the texts given to a constructor or assigned
WordTexts == SeqsUpTo({"a", "b"}, MaxBufLen)

\* the words given to the copy constructor and to operator=(const word&)
SourceWords == [m_buffer : WordTexts, m_charset : GivenCharsets]

\* the buffer given to charset::parse, and the positions and ends it is
\* called with: the name with or without the character before and after it
CharsetBuffers == {<<"=", "u", "t", "f", "-", "8", "?">>}
ParsePositions(buffer) == {0, 1}
ParseEnds(buffer) == {Len(buffer) - 1, Len(buffer)}

\* charset::getLocaleCharset(): what the platform handler says
getLocaleCharset == localeCharset

\* the word object
Word == [m_buffer |-> m_buffer, m_charset |-> m_charset]

\* the object becomes w, its charset given by the operation `how' ("" keeps
\* the record of the operation)
WordBecomes(w, how) ==
    /\ m_buffer' = w.m_buffer
    /\ m_charset' = w.m_charset
    /\ wordBuilt' = IF how = "" THEN wordBuilt ELSE how

charsetObject == <<m_name, charsetBuilt, csNewPosition>>

\* the operation is not an assignment of a string
NotAssigned ==
    /\ wordAssigned' = FALSE
    /\ wordBefore' = [m_buffer |-> <<>>, m_charset |-> <<>>]

\* word::word()
WordDefault ==
    /\ WordBecomes([m_buffer |-> <<>>, m_charset |-> getLocaleCharset],
                   "word()")
    /\ NotAssigned
    /\ UNCHANGED <<localeCharset, charsetObject>>
    /\ UNCHANGED wordOthers

\* word::word(const word& w)
WordCopy ==
    /\ \E w \in SourceWords :
          WordBecomes([m_buffer |-> w.m_buffer, m_charset |-> w.m_charset],
                      "word(w)")
    /\ NotAssigned
    /\ UNCHANGED <<localeCharset, charsetObject>>
    /\ UNCHANGED wordOthers

\* word::word(const string& buffer)
WordFromBuffer ==
    /\ \E buffer \in WordTexts :
          WordBecomes([m_buffer |-> buffer, m_charset |-> getLocaleCharset],
                      "word(buffer)")
    /\ NotAssigned
    /\ UNCHANGED <<localeCharset, charsetObject>>
    /\ UNCHANGED wordOthers

\* word::word(const string& buffer, const class charset& charset)
WordFromBufferCharset ==
    /\ \E buffer \in WordTexts, charset \in GivenCharsets :
          WordBecomes([m_buffer |-> buffer, m_charset |-> charset],
                      "word(buffer, charset)")
    /\ NotAssigned
    /\ UNCHANGED <<localeCharset, charsetObject>>
    /\ UNCHANGED wordOthers

\* word::operator=(const word& w): m_buffer = w.m_buffer, m_charset =
\* w.m_charset
WordAssignWord ==
    /\ wordBuilt # "none"
    /\ \E w \in SourceWords :
          WordBecomes([m_buffer |-> w.m_buffer, m_charset |-> w.m_charset],
                      "operator=(w)")
    /\ NotAssigned
    /\ UNCHANGED <<localeCharset, charsetObject>>
    /\ UNCHANGED wordOthers

\* a variant of the assignment that also sets the charset anew
AssignString_LocaleCharset(w, s) ==
    [m_buffer |-> s, m_charset |-> getLocaleCharset]

\* word::operator=(const string& s): m_buffer = s
AssignString(w, s) == [w EXCEPT !.m_buffer = s]

\* w = s on the word object
WordAssignString ==
    /\ wordBuilt # "none"
    /\ \E s \in WordTexts : WordBecomes(AssignString(Word, s), "")
    /\ wordBefore' = Word
    /\ wordAssigned' = TRUE
    /\ UNCHANGED <<localeCharset, charsetObject>>
    /\ UNCHANGED wordOthers

wordObject == <<m_buffer, m_charset, wordBuilt, wordBefore, wordAssigned>>

\* charset::charset()
CharsetDefault ==
    /\ m_name' = US_ASCII
    /\ charsetBuilt' = "charset()"
    /\ csNewPosition' = -1
    /\ UNCHANGED <<localeCharset, wordObject>>
    /\ UNCHANGED wordOthers

\* charset::charset(const string& name)
CharsetNamed ==
    /\ \E name \in GivenCharsets : m_name' = name
    /\ charsetBuilt' = "charset(name)"
    /\ csNewPosition' = -1
    /\ UNCHANGED <<localeCharset, wordObject>>
    /\ UNCHANGED wordOthers

\* string(buffer.begin() + position, buffer.begin() + end)
Slice(buffer, position, end) == SubSeq(buffer, position + 1, end)

\* charset::parse(buffer, position, end, newPosition): the name becomes the
\* characters from position up to end; newPosition may be NULL
CharsetParse ==
    /\ charsetBuilt # "none"
    /\ \E buffer \in CharsetBuffers, given \in BOOLEAN :
       \E position \in ParsePositions(buffer), end \in ParseEnds(buffer) :
          /\ m_name' = Slice(buffer, position, end)
          /\ csNewPosition' = IF given THEN end ELSE -1
    /\ charsetBuilt' = "parse"
    /\ UNCHANGED <<localeCharset, wordObject>>
    /\ UNCHANGED wordOthers

\* charset::operator=(const charset& source): m_name = source.m_name
CharsetAssignCharset ==
    /\ charsetBuilt # "none"
    /\ \E source \in GivenCharsets : m_name' = source
    /\ charsetBuilt' = "operator=(charset)"
    /\ csNewPosition' = -1
    /\ UNCHANGED <<localeCharset, wordObject>>
    /\ UNCHANGED wordOthers

\* charset::operator=(const string& name): parse(name), which is
\* parse(name, 0, name.length(), NULL)
CharsetAssignString ==
    /\ charsetBuilt # "none"
    /\ \E name \in GivenCharsets : m_name' = Slice(name, 0, Len(name))
    /\ charsetBuilt' = "operator=(name)"
    /\ csNewPosition' = -1
    /\ UNCHANGED <<localeCharset, wordObject>>
    /\ UNCHANGED wordOthers

----------------------------------------------------------------------------
(* utility::random::next *)

\* largest number of next() calls in a row
MaxNextCalls == 3

\* static const unsigned long a = 16807
MultiplierA == 16807

\* an unsigned int of 32 bits is held as [hi, lo], its value hi * 2^16 + lo
LimbBase == 65536

\* 2^15: the weight of bit 31 in the upper half
TopBit == LimbBase \div 2

\* the upper and lower halves of the states the generator is started from
SeedHalves == {0, 1, 2, TopBit - 1, TopBit, LimbBase - 1}
SeedLows == SeedHalves \cup {62237, 62238}

\* the 32-bit values the generator is started from: small values, 127773 and
\* 127774 (hi = 1, lo = 62237 and 62238), values around 2^31, 2^32 - 1
Seeds == {[hi |-> h, lo |-> l] : h \in SeedHalves, l \in SeedLows}

\* a * x as an exact number of 48 bits, in three 16-bit parts
Times(x) ==
    LET p0 == MultiplierA * x.lo
        p1 == MultiplierA * x.hi + p0 \div LimbBase
    IN  [top |-> p1 \div LimbBase, hi |-> p1 % LimbBase, lo |-> p0 % LimbBase]

\* (a * m_next) % c converted to unsigned int, where c is (1 << 31), an int
\* with only the sign bit set, converted to unsigned long.
\*  - unsigned long of 64 bits: c = 2^64 - 2^31 is greater than every
\*    product, the remainder is the product, and the conversion keeps its
\*    low 32 bits;
\*  - unsigned long of 32 bits: the product wraps at 2^32, c = 2^31, and the
\*    remainder clears bit 31.
next(x, bits) ==
    LET p == Times(x)
    IN  IF bits = 64
        THEN [hi |-> p.hi, lo |-> p.lo]
        ELSE [hi |-> p.hi % TopBit, lo |-> p.lo]

\* random::next()
RandomNext ==
    /\ rndCalls < MaxNextCalls
    /\ m_next' = next(m_next, longBits)
    /\ rndReturned' = next(m_next, longBits)
    /\ rndBefore' = m_next
    /\ rndCalls' = rndCalls + 1
    /\ UNCHANGED longBits
    /\ UNCHANGED rndOthers

----------------------------------------------------------------------------
(* The encoder test driver.  The encoder classes that encoderFactory::create
   gives are not part of the sources: the text an encoder writes is held as
   what it stands for (the bytes and the encodings applied to them), and is
   not computed.  Bytes are numbers 0..255. *)

\* largest length of the inputs
MaxInputLen == 3

\* p->properties()["maxlinelength"] = 76
MaxLineLength == 76

\* the bytes the inputs are made of: NUL, LF, CR, space, '=', 'A', 0xFF
ByteSamples == {0, 10, 13, 32, 61, 65, 255}

\* the inputs given to the driver
EncoderInputs == SeqsUpTo(ByteSamples, MaxInputLen)

\* the names the driver is run with
EncodingNames == {"base64", "quoted-printable"}

\* the text that holds the bytes as they are
PlainText(bytes) == [bytes |-> bytes, applied |-> <<>>]

\* p->encode(in, out) of the encoder made for the name: the text in that
\* encoding, in lines of at most width characters
encode(name, in, width) ==
    [in EXCEPT !.applied = Append(@, [op |-> "encode", name |-> name,
                                      width |-> width])]

\* the text was last written by the encoder of the name
EncodedBy(name, in) ==
    /\ Len(in.applied) > 0
    /\ in.applied[Len(in.applied)].op = "encode"
    /\ in.applied[Len(in.applied)].name = name

\* p->decode(in, out) of the encoder made for the name: a text written by
\* that encoder gives what was encoded; of any other text the decoder makes
\* what it can, which the sources do not tell
decode(name, in) ==
    IF EncodedBy(name, in)
    THEN [in EXCEPT !.applied = SubSeq(@, 1, Len(@) - 1)]
    ELSE [in EXCEPT !.applied = Append(@, [op |-> "decode", name |-> name,
                                          width |-> 0])]

\* the driver: what it writes to standard output when run with the
\* arguments name and mode on the standard input `in'
main(name, mode, in) ==
    IF mode = "e" THEN encode(name, in, MaxLineLength) ELSE decode(name, in)

\* the modes the driver is run with: "e", and another word
DriverModes == {"e", "d"}

\* a first run of the driver, on the input
EncoderEncode ==
    /\ encPc = "start"
    /\ \E mode \in DriverModes :
          encoded' = main(encName, mode, PlainText(encInput))
    /\ encPc' = "encoded"
    /\ UNCHANGED <<encName, encInput, decoded>>
    /\ UNCHANGED encOthers

\* a second run of the driver, on what the first run wrote
EncoderDecode ==
    /\ encPc = "encoded"
    /\ \E mode \in DriverModes :
          decoded' = main(encName, mode, encoded)
    /\ encPc' = "decoded"
    /\ UNCHANGED <<encName, encInput, encoded>>
    /\ UNCHANGED encOthers

----------------------------------------------------------------------------
(* The specifications: one per component, the other components idle *)

\* no conversion is running
ConvIdle ==
    /\ cpc = "idle" /\ form = "none" /\ stage = 1 /\ orig = <<>> /\ input = <<>>
    /\ src = Utf8 /\ dst = Utf8 /\ rdPos = 0 /\ inBuffer = <<>>
    /\ prevIsInvalid = FALSE /\ out = <<>> /\ outStr = <<>> /\ cerr = "none"
    /\ discarded = <<>> /\ failLog = <<>> /\ passes = 0

\* no charset is being compared
CsIdle ==
    /\ csA = <<>> /\ csB = <<>> /\ csDone = {}
    /\ csEq = "unset" /\ csEqRev = "unset" /\ csEqSelf = "unset" /\ csNe = "unset"

\* no relay field is being parsed
RelayIdle ==
    /\ rpc = "idle" /\ rbuffer = <<>> /\ iss = <<>> /\ previous = <<>>
    /\ part = "None" /\ inComment = FALSE
    /\ m_from = <<>> /\ m_by = <<>> /\ m_via = <<>> /\ m_with = <<>>
    /\ m_id = <<>> /\ m_for = <<>> /\ m_date = <<>>
    /\ newPosition = -1 /\ prior = EmptySlots /\ rlog = <<>>

\* no value text was generated
GenIdle ==
    /\ gens = <<>> /\ gfields = <<>>
    /\ gcalls = <<>> /\ gos = <<>> /\ gnewLinePos = -1

\* no copyFrom is running
CopyIdle ==
    /\ cfPc = "idle" /\ cfErr = "none"
    /\ cfTarget = Field(Relay, "", EmptySlots, <<>>, "", <<>>, <<>>)
    /\ cfSource = cfTarget
    /\ cfOrig = [target |-> cfTarget, source |-> cfSource]
    /\ cfCopied = cfOrig

\* no bodyPart::parse is running
PartIdle ==
    /\ bpPc = "idle" /\ bpBuffer = <<>> /\ bpPosition = 0 /\ bpEnd = 0
    /\ bpWantPos = FALSE /\ bpPos = 0 /\ bpCalls = <<>> /\ bpNewPosition = -1

\* no bodyPart exists
TreeIdle ==
    /\ heap = <<>> /\ heapBefore = <<>> /\ clNode = 0 /\ clResult = 0
    /\ clCount = 0

\* the transport as its constructor leaves it
Constructed ==
    /\ tpc = "idle" /\ m_socket = NULL /\ m_timeoutHandler = NULL
    /\ m_authentified = FALSE /\ m_extendedSMTP = FALSE
    /\ sockets = <<>> /\ handlers = <<>> /\ trace = <<>>
    /\ atCall = Snapshot(Transport)
    /\ expeditor = "" /\ recipients = <<>> /\ it = 0 /\ is = <<>>
    /\ size = 0 /\ progress = FALSE

\* no transport is used
SmtpIdle == Constructed /\ needAuth = FALSE /\ timeoutFactory = FALSE

\* no word and no charset object has been built
NoWord ==
    /\ m_buffer = <<>> /\ m_charset = <<>> /\ wordBuilt = "none"
    /\ wordBefore = [m_buffer |-> <<>>, m_charset |-> <<>>]
    /\ wordAssigned = FALSE
    /\ m_name = <<>> /\ charsetBuilt = "none" /\ csNewPosition = -1

WordIdle == NoWord /\ localeCharset = US_ASCII

\* no next() call yet
NotCalled ==
    /\ rndBefore = m_next /\ rndReturned = m_next /\ rndCalls = 0

RandomIdle == m_next = [hi |-> 0, lo |-> 0] /\ longBits = 64 /\ NotCalled

\* the driver has not been run
NotRun ==
    /\ encPc = "start"
    /\ encoded = PlainText(<<>>) /\ decoded = PlainText(<<>>)

EncoderIdle == NotRun /\ encName = "base64" /\ encInput = <<>>

InitConv ==
    /\ cpc = "start"
    /\ form = "none"
    /\ stage = 1
    /\ input \in SeqsUpTo(InputBytes, MaxLen) \cup LongSequenceInputs
    /\ orig = input
    /\ src \in CharsetNames
    /\ dst \in CharsetNames
    /\ rdPos = 0
    /\ inBuffer = <<>>
    /\ prevIsInvalid = FALSE
    /\ out = <<>>
    /\ outStr = PreviousOut
    /\ cerr = "none"
    /\ discarded = <<>>
    /\ failLog = <<>>
    /\ passes = 0
    /\ CsIdle
    /\ RelayIdle
    /\ GenIdle
    /\ CopyIdle
    /\ PartIdle
    /\ TreeIdle
    /\ SmtpIdle
    /\ WordIdle
    /\ RandomIdle
    /\ EncoderIdle

NextConv ==
    \/ ConvertOpen
    \/ ConvertPassOk
    \/ ConvertFirstFailure
    \/ ConvertSecondFailure
    \/ ConvertString
    \/ ConvertBack

SpecConv == InitConv /\ [][NextConv]_vars

InitCharset ==
    /\ csA \in SeqsUpTo(NameChars, MaxNameLen) \cup ExampleNames
    /\ csB \in SeqsUpTo(NameChars, MaxNameLen) \cup ExampleNames
    /\ csDone = {}
    /\ csEq = "unset" /\ csEqRev = "unset" /\ csEqSelf = "unset" /\ csNe = "unset"
    /\ ConvIdle
    /\ RelayIdle
    /\ GenIdle
    /\ CopyIdle
    /\ PartIdle
    /\ TreeIdle
    /\ SmtpIdle
    /\ WordIdle
    /\ RandomIdle
    /\ EncoderIdle

NextCharset ==
    \/ CompareEq
    \/ CompareEqReversed
    \/ CompareEqSelf
    \/ CompareNe

SpecCharset == InitCharset /\ [][NextCharset]_vars

InitRelay ==
    /\ rpc = "start"
    /\ \E t \in RelayTexts :
          rbuffer \in {t \o <<";">> \o DateText, t}
    /\ iss = <<>> /\ previous = <<>> /\ part = "None" /\ inComment = FALSE
    /\ prior \in {EmptySlots, UsedSlots}
    /\ m_from = prior.from /\ m_by = prior.by /\ m_via = prior.via
    /\ m_with = prior.with /\ m_id = prior.id /\ m_for = prior.for
    /\ m_date = PriorDate
    /\ newPosition = -1
    /\ rlog = <<>>
    /\ ConvIdle
    /\ CsIdle
    /\ GenIdle
    /\ CopyIdle
    /\ PartIdle
    /\ TreeIdle
    /\ SmtpIdle
    /\ WordIdle
    /\ RandomIdle
    /\ EncoderIdle

NextRelay ==
    \/ RelayParseNoSemicolon
    \/ RelayParseBegin
    \/ RelayReadWord
    \/ RelayEndOfInput

SpecRelay == InitRelay /\ [][NextRelay]_vars

\* a text is parsed into a new field, or a field is built; then the field is
\* generated and the text parsed into a new field, MaxRounds times
InitRelayGen ==
    /\ \/ /\ rpc = "start"
          /\ \E t \in GenTexts : rbuffer \in {t \o <<";">> \o DateText, t}
          /\ prior = EmptySlots
          /\ m_date = <<>>
       \/ /\ rpc = "built"
          /\ rbuffer = <<>>
          /\ prior \in BuiltFields
          /\ m_date = DateText
    /\ iss = <<>> /\ previous = <<>> /\ part = "None" /\ inComment = FALSE
    /\ m_from = prior.from /\ m_by = prior.by /\ m_via = prior.via
    /\ m_with = prior.with /\ m_id = prior.id /\ m_for = prior.for
    /\ newPosition = -1
    /\ rlog = <<>>
    /\ GenIdle
    /\ ConvIdle
    /\ CsIdle
    /\ CopyIdle
    /\ PartIdle
    /\ TreeIdle
    /\ SmtpIdle
    /\ WordIdle
    /\ RandomIdle
    /\ EncoderIdle

NextRelayGen ==
    \/ RelayParseNoSemicolon
    \/ RelayParseBegin
    \/ RelayReadWord
    \/ RelayEndOfInput
    \/ RelayGenerate
    \/ RelayReparse

SpecRelayGen == InitRelayGen /\ [][NextRelayGen]_vars

InitCopy ==
    /\ cfPc = "start"
    /\ cfTarget \in CopyFields
    /\ cfSource \in CopyFields
    /\ cfErr = "none"
    /\ cfOrig = [target |-> cfTarget, source |-> cfSource]
    /\ cfCopied = cfOrig
    /\ ConvIdle
    /\ CsIdle
    /\ RelayIdle
    /\ GenIdle
    /\ PartIdle
    /\ TreeIdle
    /\ SmtpIdle
    /\ WordIdle
    /\ RandomIdle
    /\ EncoderIdle

NextCopy ==
    \/ RelayCopyFrom
    \/ ContentEncodingCopyFrom
    \/ MailboxListCopyFrom
    \/ ChangeTarget
    \/ ChangeSource

SpecCopy == InitCopy /\ [][NextCopy]_vars

InitPart ==
    /\ bpPc = "start"
    /\ bpBuffer \in SeqsUpTo(PartChars, MaxPartLen)
    /\ bpPosition \in 0..Len(bpBuffer)
    /\ bpEnd \in bpPosition..Len(bpBuffer)
    /\ bpWantPos \in BOOLEAN
    /\ bpPos = 0
    /\ bpCalls = <<>>
    /\ bpNewPosition = -1
    /\ ConvIdle
    /\ CsIdle
    /\ RelayIdle
    /\ GenIdle
    /\ CopyIdle
    /\ TreeIdle
    /\ SmtpIdle
    /\ WordIdle
    /\ RandomIdle
    /\ EncoderIdle

NextPart ==
    \/ PartParseHeader
    \/ PartParseBody
    \/ PartParseReturn

SpecPart == InitPart /\ [][NextPart]_vars

InitTree ==
    /\ \E n \in 1..MaxNodes : heap \in TreesOf(n)
    /\ heapBefore = heap
    /\ clNode = 0
    /\ clResult = 0
    /\ clCount = 0
    /\ ConvIdle
    /\ CsIdle
    /\ RelayIdle
    /\ GenIdle
    /\ CopyIdle
    /\ PartIdle
    /\ SmtpIdle
    /\ WordIdle
    /\ RandomIdle
    /\ EncoderIdle

NextTree ==
    \/ PartClone

SpecTree == InitTree /\ [][NextTree]_vars

\* a transport after its construction, for every setting of the two session
\* properties connect() reads
InitSmtp ==
    /\ Constructed
    /\ needAuth \in BOOLEAN
    /\ timeoutFactory \in BOOLEAN
    /\ ConvIdle
    /\ CsIdle
    /\ RelayIdle
    /\ GenIdle
    /\ CopyIdle
    /\ PartIdle
    /\ TreeIdle
    /\ WordIdle
    /\ RandomIdle
    /\ EncoderIdle

\* the arguments given to send(expeditor, recipients, is, size, progress)
Expeditors == {"", "a@x"}

SmtpSend ==
    SendCall(Expeditors, RecipientsUpTo(MaxRcpt), {StringStream(MessageText)},
             {Len(MessageText)}, {FALSE})

SmtpSendMessage == SendMessageCall(Messages, {FALSE})

NextSmtp ==
    \/ ConnectCall
    \/ ConnectGreeting
    \/ ConnectEhlo
    \/ ConnectHelo
    \/ ConnectAuth
    \/ ConnectAuthAnswer
    \/ ReadTimeout
    \/ DisconnectCall
    \/ SMTPTransportDestructor
    \/ NoopCall
    \/ NoopReply
    \/ SmtpSend
    \/ SmtpSendMessage
    \/ SendMail
    \/ SendRcpt
    \/ SendData
    \/ SendEnd
    \/ CallerResumes

SpecSmtp == InitSmtp /\ [][NextSmtp]_vars

\* a transport of a session that sets neither property, given every input
\* stream over the messages of the model
InitData ==
    /\ SmtpIdle
    /\ ConvIdle
    /\ CsIdle
    /\ RelayIdle
    /\ GenIdle
    /\ CopyIdle
    /\ PartIdle
    /\ TreeIdle
    /\ WordIdle
    /\ RandomIdle
    /\ EncoderIdle

DataStreams == StreamsUpTo(MaxMsgLen)

DataSend ==
    SendCall({"a@x"}, {<<"b@y">>}, DataStreams, {0, MaxMsgLen}, BOOLEAN)

NextData ==
    \/ ConnectCall
    \/ ConnectGreeting
    \/ ConnectEhlo
    \/ ConnectHelo
    \/ DataSend
    \/ SendMail
    \/ SendRcpt
    \/ SendData
    \/ SendEnd
    \/ CallerResumes

SpecData == InitData /\ [][NextData]_vars

\* no object yet, on a platform with any of the locale charsets
InitWord ==
    /\ NoWord
    /\ localeCharset \in LocaleCharsets
    /\ ConvIdle
    /\ CsIdle
    /\ RelayIdle
    /\ GenIdle
    /\ CopyIdle
    /\ PartIdle
    /\ TreeIdle
    /\ SmtpIdle
    /\ RandomIdle
    /\ EncoderIdle

NextWordOps ==
    \/ WordDefault
    \/ WordFromBuffer
    \/ WordFromBufferCharset
    \/ WordAssignString
    \/ WordCopy
    \/ WordAssignWord
    \/ CharsetDefault
    \/ CharsetNamed
    \/ CharsetParse
    \/ CharsetAssignCharset
    \/ CharsetAssignString

SpecWord == InitWord /\ [][NextWordOps]_vars

\* the generator with any of the seeds, in a build with either size of
\* unsigned long
InitRandom ==
    /\ m_next \in Seeds
    /\ longBits \in {32, 64}
    /\ NotCalled
    /\ ConvIdle
    /\ CsIdle
    /\ RelayIdle
    /\ GenIdle
    /\ CopyIdle
    /\ PartIdle
    /\ TreeIdle
    /\ SmtpIdle
    /\ WordIdle
    /\ EncoderIdle

NextRandom == RandomNext

SpecRandom == InitRandom /\ [][NextRandom]_vars

\* the driver before its first run, for each encoding and each input
InitEncoder ==
    /\ NotRun
    /\ encName \in EncodingNames
    /\ encInput \in EncoderInputs
    /\ ConvIdle
    /\ CsIdle
    /\ RelayIdle
    /\ GenIdle
    /\ CopyIdle
    /\ PartIdle
    /\ TreeIdle
    /\ SmtpIdle
    /\ WordIdle
    /\ RandomIdle

NextEncoder ==
    \/ EncoderEncode
    \/ EncoderDecode

SpecEncoder == InitEncoder /\ [][NextEncoder]_vars

----------------------------------------------------------------------------
(* Claims on charset::convert *)

\* the sequence at input position p is complete and valid in the whole input:
\* a pass that fails at p with EINVAL fails only because the buffer cut it
CutOnly(p) == DecodeChar(src, input, p).st = "ok"

\* C1: the streaming convert writes a '?' placeholder only for a sequence that
\* failed twice at the same position: a failure that is due only to a
\* multi-byte sequence cut at the end of the buffer while more input is
\* available (iconv reports EINVAL, an incomplete sequence, and with the bytes
\* that follow in the input the sequence is valid) never produces a placeholder
\* and never discards a byte, also when an earlier pass of the same conversion
\* has failed.
C1_NoPlaceholderForCutSequence ==
    \A i \in 1..Len(failLog) :
        LET f == failLog[i] IN
        (f.errno = "EINVAL" /\ f.moreInput /\ CutOnly(f.pos)) =>
            (~f.placeholder /\ \A k \in 1..Len(discarded) : discarded[k] # f.pos)

\* number of input bytes converted or discarded so far
Handled == rdPos - Len(inBuffer)

\* what the output must hold for input[i .. n] when exactly the positions of
\* `discarded' are replaced by '?' and every other byte is converted once, in
\* order; <<-1>> if the bytes between two discarded positions do not convert
RECURSIVE Accounted(_, _)
Accounted(i, n) ==
    IF i > n THEN <<>>
    ELSE IF \E k \in 1..Len(discarded) : discarded[k] = i
    THEN <<QuestionMark>> \o Accounted(i + 1, n)
    ELSE
      LET stops == {p \in i..n : \E k \in 1..Len(discarded) : discarded[k] = p}
          j == IF stops = {} THEN n
               ELSE (CHOOSE p \in stops : \A q \in stops : p <= q) - 1
          r == iconv(src, dst, SubSeq(input, i, j), OutBufferSize * (MaxLen + 1))
      IN  IF r.ret = -1 THEN <<-1>> ELSE r.out \o Accounted(j + 1, n)

\* C2: in the streaming convert every input byte is accounted for exactly
\* once and in input order: the bytes kept in the buffer are exactly the bytes
\* read and not yet converted or discarded, ahead of the bytes read next; the
\* output is the conversion of the bytes handled so far with exactly one '?'
\* in place of each discarded byte; at the end every byte has been handled.
C2_EveryByteAccountedOnce ==
    (form = "stream" /\ cpc \in {"loop", "done"}) =>
        /\ Handled >= 0
        /\ inBuffer = SubSeq(input, Handled + 1, rdPos)
        /\ \A k \in 1..Len(discarded) :
              /\ discarded[k] \in 1..Handled
              /\ k > 1 => discarded[k - 1] < discarded[k]
        /\ out = Accounted(1, Handled)
        /\ cpc = "done" => Handled = Len(input)

\* a conversion that kept a cut tail, later discarded a byte, and ended
C2_Witness ==
    /\ form = "stream" /\ cpc = "done" /\ stage = 1
    /\ Len(discarded) >= 1
    /\ \E i \in 1..Len(failLog) :
          ~failLog[i].placeholder /\ failLog[i].pos > 1 /\ failLog[i].moreInput
    /\ \E i \in 1..Len(out) : out[i] # QuestionMark

\* C3: the buffer form produces the same output bytes as the streaming form
\* run on the same input.
C3_BufferFormEqualsStreaming ==
    (form = "stream" /\ cpc = "done") => out = iconvert(input, src, dst)

\* the result of the conversion that ended
Result == IF form = "stream" THEN out ELSE outStr

\* s is fully representable in A and in B: converting it from A to B fails nowhere
Representable(s, A, B) == iconv(A, B, s, OutBufferSize * (MaxLen + 1)).ret # -1

\* C4: for an input s fully representable in A and B, converting s from A to B
\* and the result back from B to A returns exactly s, for the streaming and
\* for the buffer form.
C4_RoundTrip ==
    (stage = 2 /\ cpc = "done" /\ Representable(orig, dst, src)) => Result = orig

\* C5: when no transcoder exists for (source, dest) both forms fail with the
\* conversion error and have no other effect: nothing is read from the input,
\* nothing is written to the output stream, and the output string of the
\* buffer form keeps its previous content.
C5_NoTranscoderNoEffect ==
    /\ (form # "none" /\ ~iconv_open(dst, src)) =>
          (cpc = "error" /\ cerr = "charset_conv_error")
    /\ cerr = "charset_conv_error" =>
          /\ ~iconv_open(dst, src)
          /\ rdPos = 0 /\ passes = 0 /\ inBuffer = <<>>
          /\ out = <<>>
          /\ outStr = PreviousOut

\* the buffer form was called for a pair with no transcoder
C5_Witness ==
    /\ form = "buffer" /\ cerr = "charset_conv_error"
    /\ Len(input) > 0 /\ dst = Unknown /\ src = Utf8

\* a natural number that every pass of the loop decreases: twice the number of
\* bytes not yet converted or discarded, plus one while prevIsInvalid is false
Measure == 2 * (Len(input) - Handled) + (IF prevIsInvalid THEN 0 ELSE 1)

\* C6: once a transcoder has been obtained the streaming convert completes
\* normally on every finite input: no pass raises an error, every pass either
\* ends the conversion or decreases Measure, which stays a natural number (so
\* the loop ends), and a pass ends the conversion only when no byte remains in
\* the input or in the input buffer.
C6_StreamingConvertTerminates ==
    [][cpc = "loop" =>
        /\ cerr' = "none"
        /\ cpc' \in {"loop", "done"}
        /\ Measure' >= 0
        /\ cpc' = "loop" => Measure' < Measure
        /\ cpc' = "done" => (inBuffer' = <<>> /\ rdPos' = Len(input))]_vars

\* a conversion ended on an input that holds an invalid byte and ends in a
\* truncated multi-byte sequence
C6_Witness ==
    /\ form = "stream" /\ cpc = "done" /\ stage = 1 /\ src = Utf8
    /\ Len(input) > InBufferSize
    /\ input[Len(input)] = 195
    /\ Len(discarded) >= 2

----------------------------------------------------------------------------
(* Claims on charset equality *)

\* the two names are the same up to the case of their letters
SameFolded(a, b) ==
    /\ Len(a) = Len(b)
    /\ \A i \in 1..Len(a) : ToLower(a[i]) = ToLower(b[i])

\* C7: charset equality is exactly case-insensitive comparison of the two
\* names: operator== holds iff the names have the same length and are equal
\* character by character after case folding ("UTF-8" equals "utf-8", "UTF8"
\* does not equal "UTF-8"); it is reflexive and symmetric; operator!= is its
\* exact negation.
C7_CharsetEquality ==
    /\ "eq" \in csDone =>
          /\ csEq = BoolName(SameFolded(csA, csB))
          /\ (csA = <<"U", "T", "F", "-", "8">> /\ csB = <<"u", "t", "f", "-", "8">>) => csEq = "true"
          /\ (csA = <<"U", "T", "F", "8">> /\ csB = <<"U", "T", "F", "-", "8">>) => csEq = "false"
    /\ "self" \in csDone => csEqSelf = "true"
    /\ {"eq", "rev"} \subseteq csDone => csEq = csEqRev
    /\ {"eq", "ne"} \subseteq csDone => (csNe = "true" <=> csEq = "false")
    /\ "ne" \in csDone => csNe \in {"true", "false"}

\* "UTF-8" and "utf-8" were compared in both directions, with == and !=
C7_Witness ==
    /\ csA = <<"U", "T", "F", "-", "8">> /\ csB = <<"u", "t", "f", "-", "8">>
    /\ csDone = {"eq", "rev", "self", "ne"}
    /\ csEq = "true" /\ csNe = "false"

----------------------------------------------------------------------------
(* Claims on relayField::parse *)

\* the text has a ';', so its components are parsed
HasDate == FindLast(rbuffer, ";") # 0

\* the value of the first example: from a.b.com by c.d.com with ESMTP id 123
ReceivedExample ==
    JoinWith(<<<<"f", "r", "o", "m">>, <<"a", ".", "b", ".", "c", "o", "m">>, <<"b", "y">>, <<"c", ".", "d", ".", "c", "o", "m">>, <<"w", "i", "t", "h">>, <<"E", "S", "M", "T", "P">>, <<"i", "d">>, <<"1", "2", "3">>>>,
             <<" ">>) \o <<";">> \o DateText

\* the value with a comment in one word: from a.b.com (helo) by c.d.com
CommentExample ==
    JoinWith(<<<<"f", "r", "o", "m">>, <<"a", ".", "b", ".", "c", "o", "m">>, <<"(", "h", "e", "l", "o", ")">>, <<"b", "y">>, <<"c", ".", "d", ".", "c", "o", "m">>>>, <<" ">>)
        \o <<";">> \o DateText

\* the value with repeated keywords: by a with b with c with d from e
RepeatExample ==
    JoinWith(<<<<"b", "y">>, <<"a">>, <<"w", "i", "t", "h">>, <<"b">>, <<"w", "i", "t", "h">>, <<"c">>, <<"w", "i", "t", "h">>, <<"d">>, <<"f", "r", "o", "m">>, <<"e">>>>,
             <<" ">>) \o <<";">> \o DateText

\* the slots once `value' is stored into the slot of the part p
SlotsAfterStore(p, value) ==
    IF p = "From" THEN [Slots EXCEPT !.from = value]
    ELSE IF p = "By" THEN [Slots EXCEPT !.by = value]
    ELSE IF p = "Via" THEN [Slots EXCEPT !.via = value]
    ELSE IF p = "With" THEN [Slots EXCEPT !.with = Append(@, value)]
    ELSE IF p = "Id" THEN [Slots EXCEPT !.id = value]
    ELSE IF p = "For" THEN [Slots EXCEPT !.for = value]
    ELSE Slots

\* the next word of the stream, after the close of a comment that is open
NextWord == CloseComment(Extract(iss).word, inComment)

\* the next word of the stream is a keyword that the parser reads outside a
\* comment
KeywordIsRead ==
    /\ rpc = "loop"
    /\ Extract(iss).ok
    /\ ~NextWord.inC
    /\ KeywordPart(NextWord.word) # "None"

\* the steps of the loop, with keyword and comment as the parser recognises
\* them (a word that starts like a keyword, a comment that is open as long as
\* the flag is set): a keyword stores the words accumulated since the previous
\* keyword, joined with single spaces, into the slot of the previous keyword,
\* no other slot changes, the accumulator is emptied and the new part starts;
\* a word that is no keyword changes no slot; the end of the input stores the
\* accumulated words into the slot of the last keyword; while no keyword was
\* read (part None) no slot changes.
StepsFlushIntoPreviousSlot ==
    [][/\ KeywordIsRead =>
            /\ Slots' = SlotsAfterStore(part,
                            JoinWith(previous \o NextWord.head, <<" ">>))
            /\ previous' = <<>>
            /\ part' = KeywordPart(NextWord.word)
       /\ (rpc = "loop" /\ Extract(iss).ok /\ ~KeywordIsRead) =>
            /\ Slots' = Slots
            /\ part' = part
            /\ previous' = previous \o NextWord.head \o <<NextWord.word>>
       /\ (rpc = "loop" /\ ~Extract(iss).ok) =>
            /\ Slots' = SlotsAfterStore(part, JoinWith(previous, <<" ">>))
            /\ previous' = <<>>
            /\ rpc' = "done"
       /\ (rpc = "loop" /\ part = "None") => Slots' = Slots]_vars

\* the value of the first example was parsed into a newly constructed field
ReceivedExampleIntoNewField ==
    /\ rpc = "done"
    /\ rbuffer = ReceivedExample
    /\ prior = EmptySlots
    /\ m_from = <<"a", ".", "b", ".", "c", "o", "m">>
    /\ m_by = <<"c", ".", "d", ".", "c", "o", "m">>
    /\ m_with = <<<<"E", "S", "M", "T", "P">>>>
    /\ m_id = <<"1", "2", "3">>
    /\ Len(rlog) = 8

\* no '(' and no ')' in w
NoParen(w) == Find(w, "(") = 0 /\ Find(w, ")") = 0

\* w holds one comment, opened and closed in w, and ends with its ')'
WholeComment(w) ==
    /\ Len(w) >= 2
    /\ Find(w, "(") # 0
    /\ Find(w, ")") = Len(w)
    /\ \A i \in 1..Len(w) : (w[i] = "(") => i = Find(w, "(")

\* C9: a word holding '(' opens a comment span that ends at the word holding
\* its ')', and keyword matching resumes with the text after that ')', also
\* when '(' and ')' are in the same word: after a word read outside a comment
\* that holds a whole comment, the next word is keyword-matched; in
\* 'from a.b.com (helo) by c.d.com; <date>' the word 'by' starts the by part.
C9_CommentClosesAtItsParenthesis ==
    /\ \A i \in 1..(Len(rlog) - 1) :
          (/\ \A j \in 1..(i - 1) : NoParen(rlog[j].word)
           /\ WholeComment(rlog[i].word)
           /\ KeywordPart(rlog[i].word) = "None")
          => rlog[i + 1].kw = KeywordPart(rlog[i + 1].word)
    /\ (rpc = "done" /\ rbuffer = CommentExample) =>
          /\ m_from = <<"a", ".", "b", ".", "c", "o", "m", " ", "(", "h", "e", "l", "o", ")">>
          /\ m_by = <<"c", ".", "d", ".", "c", "o", "m">>

\* index of the first keyword the parser read after word i, Len(rlog) + 1
\* when there is none
NextKeyword(i) ==
    IF \E j \in (i + 1)..Len(rlog) : rlog[j].kw # "None"
    THEN CHOOSE j \in (i + 1)..Len(rlog) :
            /\ rlog[j].kw # "None"
            /\ \A k \in (i + 1)..(j - 1) : rlog[k].kw = "None"
    ELSE Len(rlog) + 1

RECURSIVE PushedBetween(_, _)
\* the words accumulated while the words a..b of the text were read
PushedBetween(a, b) ==
    IF a > b THEN <<>> ELSE rlog[a].pushed \o PushedBetween(a + 1, b)

\* the words of the occurrence of a keyword at word i, joined
OccurrenceValue(i) ==
    JoinWith(PushedBetween(i + 1, Min(NextKeyword(i), Len(rlog))), <<" ">>)

RECURSIVE WithValuesFrom(_)
\* the values of the occurrences of 'with' from word i on, in input order
WithValuesFrom(i) ==
    IF i > Len(rlog) THEN <<>>
    ELSE (IF rlog[i].kw = "With" THEN <<OccurrenceValue(i)>> ELSE <<>>)
            \o WithValuesFrom(i + 1)

\* index of the last occurrence of the keyword k, 0 when there is none
LastOccurrence(k) ==
    IF \E i \in 1..Len(rlog) : rlog[i].kw = k
    THEN CHOOSE i \in 1..Len(rlog) :
            rlog[i].kw = k /\ \A j \in (i + 1)..Len(rlog) : rlog[j].kw # k
    ELSE 0

\* the slot of the keyword k after the parse: the words of its last occurrence
LastValue(k, before) ==
    IF LastOccurrence(k) = 0 THEN before ELSE OccurrenceValue(LastOccurrence(k))

\* number of words the parser took for the keyword 'with'
WithCount == Cardinality({i \in 1..Len(rlog) : rlog[i].kw = "With"})

\* with the occurrences of a keyword as the parser recognises them: the with
\* list is what it held before followed by one entry per occurrence of
\* 'with', in input order; each of from, by, via, id, for holds the words of
\* the last occurrence of its keyword, and what it held before when the
\* keyword does not occur.
RecognisedWithAppendsOthersOverwrite ==
    (rpc = "done" /\ HasDate) =>
        /\ m_with = prior.with \o WithValuesFrom(1)
        /\ Len(m_with) = Len(prior.with) + WithCount
        /\ m_from = LastValue("From", prior.from)
        /\ m_by = LastValue("By", prior.by)
        /\ m_via = LastValue("Via", prior.via)
        /\ m_id = LastValue("Id", prior.id)
        /\ m_for = LastValue("For", prior.for)

\* the value has no space at its start, none at its end, no two in a row
SingleSpaced(v) ==
    /\ Len(v) > 0 => (v[1] # " " /\ v[Len(v)] # " ")
    /\ \A i \in 1..(Len(v) - 1) : ~(v[i] = " " /\ v[i + 1] = " ")

\* C11: every value that parse stores into a slot (from, by, via, id, for or
\* a with entry) is the accumulated words joined by exactly one space: no
\* space at its start, none at its end and no two spaces in a row, also for
\* texts with comments in parentheses.
C11_StoredValuesSingleSpaced ==
    /\ SingleSpaced(m_from)
    /\ SingleSpaced(m_by)
    /\ SingleSpaced(m_via)
    /\ SingleSpaced(m_id)
    /\ SingleSpaced(m_for)
    /\ \A i \in 1..Len(m_with) : SingleSpaced(m_with[i])

\* the value with a ';' before the last one: from a;b by c
InnerSemicolonExample ==
    JoinWith(<<<<"f", "r", "o", "m">>, <<"a", ";", "b">>, <<"b", "y">>, <<"c">>>>, <<" ">>) \o <<";">> \o DateText

\* C12: parse splits the value at its last ';': the date parser is given
\* exactly the text after the last ';' (so it holds no ';'), the tokenizer
\* exactly the text before it (so an earlier ';' is in the tokenized text),
\* and the new position reported is the end of the value.
C12_SplitAtLastSemicolon ==
    [][/\ (rpc = "start" /\ Find(rbuffer, ";") # 0) =>
            /\ rpc' = "loop"
            /\ iss' \o <<";">> \o m_date' = rbuffer
            /\ Find(m_date', ";") = 0
       /\ (rpc = "loop") => (m_date' = m_date /\ Len(iss') <= Len(iss))
       /\ (rpc' = "done") => newPosition' = Len(rbuffer)]_vars

\* a value with two ';' is parsed: the first ';' is in the from part
C12_Witness ==
    /\ rpc = "done"
    /\ rbuffer = InnerSemicolonExample
    /\ m_date = DateText
    /\ m_from = <<"a", ";", "b">>
    /\ m_by = <<"c">>
    /\ newPosition = Len(rbuffer)

\* C13: when the value has no ';' nothing is parsed: from, by, via, with, id,
\* for and the date keep what they held before the call (all empty for a new
\* field), no word is read, and the new position reported is the end of the
\* value.
C13_NoSemicolonNothingParsed ==
    (rpc = "done" /\ Find(rbuffer, ";") = 0) =>
        /\ Slots = prior
        /\ m_date = PriorDate
        /\ rlog = <<>>
        /\ newPosition = Len(rbuffer)

\* a text of keywords and words with no ';' was given to a field that was
\* filled before
C13_Witness ==
    /\ rpc = "done"
    /\ rbuffer \o <<";">> \o DateText = ReceivedExample
    /\ prior = UsedSlots
    /\ Slots = UsedSlots
    /\ m_date = UsedDate
    /\ newPosition = Len(rbuffer)

----------------------------------------------------------------------------
(* Claims on relayField::generate *)

\* the part '<keyword> <value>' of a slot, no part when the slot is empty
PartIfSet(keyword, value) ==
    IF value = <<>> THEN <<>> ELSE <<keyword \o <<" ">> \o value>>

RECURSIVE WithParts(_)
\* one part 'with <value>' for every with entry, in stored order
WithParts(list) ==
    IF list = <<>> THEN <<>>
    ELSE <<<<"w", "i", "t", "h">> \o <<" ">> \o Head(list)>> \o WithParts(Tail(list))

\* the parts of the field f in the fixed order from, by, via, with*, id, for
PartsInOrder(f) ==
    PartIfSet(<<"f", "r", "o", "m">>, f.from) \o PartIfSet(<<"b", "y">>, f.by)
        \o PartIfSet(<<"v", "i", "a">>, f.via) \o WithParts(f.with)
        \o PartIfSet(<<"i", "d">>, f.id) \o PartIfSet(<<"f", "o", "r">>, f.for)

\* the text generated for 'by a with b with c with d from e'
RepeatGenerated ==
    JoinWith(<<<<"f", "r", "o", "m">>, <<"e">>, <<"b", "y">>, <<"a">>, <<"w", "i", "t", "h">>, <<"b">>, <<"w", "i", "t", "h">>, <<"c">>, <<"w", "i", "t", "h">>, <<"d">>>>,
             <<" ">>) \o <<";", " ">> \o DateGenerate(DateText)

\* C14: generate writes the parts in the fixed order from, by, via, every
\* with entry in stored order, id, for, whatever their order in the parsed
\* text; each part is '<keyword> <value>', one space between two parts and
\* none before the first; from, by, via, id, for are left out when empty; the
\* text ends with '; ' and the generated date.
C14_GenerateFixedOrder ==
    \A i \in 1..Len(gens) :
        /\ gens[i] = JoinWith(PartsInOrder(gfields[i].slots), <<" ">>)
                        \o <<";", " ">> \o DateGenerate(gfields[i].date)
        /\ (gfields[i].parsed /\ i = 1 /\ rpc = "generated"
                /\ rbuffer = RepeatExample) => gens[i] = RepeatGenerated

\* the field parsed from 'by a with b with c with d from e' was generated
C14_Witness ==
    /\ rpc = "generated"
    /\ rbuffer = RepeatExample
    /\ Len(gens) = 1
    /\ gens[1] = RepeatGenerated
    /\ m_with = <<<<"b">>, <<"c">>, <<"d">>>>

\* the last generate handed the string `result' to encodeAndFoldText with
\* forceNoEncoding, at the column after the name, and what it wrote to os is
\* the name, ': ' and that string, with line ends only before a space
GenerateWritesNameAndResult ==
    rpc = "generated" =>
        /\ Len(gcalls) = 3
        /\ gcalls[3].text = gens[Len(gens)]
        /\ gcalls[3].flags = "forceNoEncoding"
        /\ gcalls[3].pos = gcalls[2].pos + Len(RelayName) + 2
        /\ Unfold(gos) = RelayName \o <<":", " ">> \o gens[Len(gens)]

\* the last generate folded the text: with maxLineLength = 20 at column 7,
\* 'via c with x y with x y; <date>' goes to os on three lines
GenerateFolded ==
    /\ rpc = "generated"
    /\ gcalls[3].max = 20 /\ gcalls[3].pos = 17
    /\ m_via = <<"c">> /\ m_with = <<<<"x", " ", "y">>, <<"x", " ", "y">>>>
    /\ m_from = <<>> /\ m_by = <<>> /\ m_id = <<>> /\ m_for = <<>>
    /\ gnewLinePos < 20

RECURSIVE SplitWords(_)
\* the words of a text, as split on white space
SplitWords(t) ==
    IF Extract(t).ok THEN <<Extract(t).word>> \o SplitWords(Extract(t).rest)
    ELSE <<>>

\* the values of the slots of the field f
FieldValues(f) ==
    {f.from, f.by, f.via, f.id, f.for} \cup {f.with[i] : i \in 1..Len(f.with)}

\* v is a sequence of non-empty words without ';', written with one space
\* between two words
WordsValue(v) == SingleSpaced(v) /\ Find(v, ";") = 0

\* the keywords of the "received" grammar of RFC 2822
ReceivedKeywords ==
    {<<"f", "r", "o", "m">>, <<"b", "y">>, <<"v", "i", "a">>,
     <<"w", "i", "t", "h">>, <<"i", "d">>, <<"f", "o", "r">>}

\* the word is one of the keywords, in any case
ExactKeyword(word) ==
    \E k \in ReceivedKeywords : isStringEqualNoCase(word, k)

\* no word of v is a keyword
NoKeywordWord(v) ==
    \A i \in 1..Len(SplitWords(v)) : ~ExactKeyword(SplitWords(v)[i])

\* no word of v starts like a keyword, none holds a parenthesis
PlainWords(v) ==
    \A i \in 1..Len(SplitWords(v)) :
        /\ KeywordPart(SplitWords(v)[i]) = "None"
        /\ NoParen(SplitWords(v)[i])

\* parse of the text generated last, into a new field, has ended
Reparsed ==
    /\ rpc = "done"
    /\ Len(gens) >= 1
    /\ rbuffer = gens[Len(gens)]

\* the field the text generated last was generated from
Generated == gfields[Len(gfields)].slots

\* C15: for a field with any slot values (each a sequence of non-empty
\* words without ';'), parse of the text that generate gives yields a field
\* with the same from, by, via, with list, id and for.  Stated for the
\* values none of whose words is itself a keyword: the text does not mark
\* where a value ends, so a value that holds a keyword as a word cannot come
\* back from it whatever the parser does.
C15_ParseOfGenerated ==
    (Reparsed /\ \A v \in FieldValues(Generated) :
                    WordsValue(v) /\ NoKeywordWord(v))
        => Slots = Generated

\* what does hold: for a field whose values are sequences of non-empty words
\* without ';', none of which starts like a keyword (from, by, vi, wi, id,
\* fo, in any case) or holds '(' or ')', parse of the text that generate
\* gives yields a field with the same from, by, via, with list, id and for.
ParseOfGeneratedPlainWords ==
    (Reparsed /\ \A v \in FieldValues(Generated) : WordsValue(v) /\ PlainWords(v))
        => Slots = Generated

\* a built field with every slot set, two with entries (one of two words) and
\* only plain words was generated and parsed back
PlainFieldParsedBack ==
    /\ Reparsed
    /\ ~gfields[1].parsed
    /\ Len(gens) = 1
    /\ Generated.from = <<"a", " ", "b">>
    /\ Generated.by = <<"b">>
    /\ Generated.via = <<"c">>
    /\ Generated.with = <<<<"x", " ", "y">>, <<"d">>>>
    /\ Generated.id = <<"e">>
    /\ Generated.for = <<"f">>
    /\ Slots = Generated

\* C16: for every Received value x, generation after parsing is idempotent:
\* the text generated from parse(x) is the text generated after parsing that
\* text again, also for values with comments and with text directly after a
\* closing ')'.
C16_GenerateParseIdempotent ==
    (Len(gens) >= 2 /\ gfields[1].parsed) => gens[2] = gens[1]

----------------------------------------------------------------------------
(* Claims on copyFrom *)

\* C17: copyFrom(other) on a relay, content-encoding or mailbox-list field
\* fails with a type-mismatch error (std::bad_cast of the dynamic_cast)
\* whenever other is of another concrete variant, and then the target is left
\* as it was: no slot, value, parameter or name was changed; the source is
\* unchanged too.
C17_CopyFromMismatchNoEffect ==
    /\ (cfPc # "start" /\ cfOrig.target.variant # cfOrig.source.variant) =>
            /\ cfPc = "error"
            /\ cfErr = "bad_cast"
            /\ cfTarget = cfOrig.target
            /\ cfSource = cfOrig.source
    /\ cfPc = "error" => cfOrig.target.variant # cfOrig.source.variant

\* copyFrom of a relay field that was filled before failed on a mailbox-list
\* field with another name
C17_Witness ==
    /\ cfPc = "error"
    /\ cfErr = "bad_cast"
    /\ cfOrig.target.variant = Relay
    /\ cfOrig.target.slots.from = UsedSlots.from
    /\ Len(cfOrig.target.slots.with) = 2
    /\ cfOrig.source.variant = MailboxList
    /\ cfOrig.source.name # cfOrig.target.name
    /\ cfTarget = cfOrig.target

\* the members of a and b are equal, component by component
SameComponents(a, b) ==
    /\ a.slots.from = b.slots.from /\ a.slots.by = b.slots.by
    /\ a.slots.via = b.slots.via /\ a.slots.id = b.slots.id
    /\ a.slots.for = b.slots.for
    /\ Len(a.slots.with) = Len(b.slots.with)
    /\ \A i \in 1..Len(a.slots.with) : a.slots.with[i] = b.slots.with[i]
    /\ a.date = b.date
    /\ a.value = b.value
    /\ a.params = b.params
    /\ a.list = b.list

\* C18: after a successful copyFrom between fields of the same variant the
\* target equals the source in every component (relay: from, by, via, the
\* whole with list with its length and order, id, for, date; content
\* encoding: the encoding and the parameters; mailbox list: the list), the
\* source is unchanged, and a later change of one of the two fields does not
\* change the other.
C18_CopyFromCopiesEveryComponent ==
    /\ (cfPc # "start" /\ cfOrig.target.variant = cfOrig.source.variant) =>
            /\ cfPc \in {"copied", "modified"}
            /\ cfErr = "none"
            /\ SameComponents(cfCopied.target, cfCopied.source)
            /\ cfCopied.source = cfOrig.source
            /\ cfCopied.target.variant = cfOrig.target.variant
    /\ cfPc = "copied" => (cfTarget = cfCopied.target /\ cfSource = cfCopied.source)
    /\ cfPc = "modified" =>
            /\ cfTarget # cfCopied.target => cfSource = cfCopied.source
            /\ cfSource # cfCopied.source => cfTarget = cfCopied.target

\* a relay field with two with entries was copied from a relay field with
\* one other entry, and the source was changed afterwards
C18_Witness ==
    /\ cfPc = "modified"
    /\ cfOrig.target.variant = Relay
    /\ cfOrig.target.slots.with = <<<<"r">>, <<"s">>>>
    /\ cfOrig.target.slots.from = <<>>
    /\ cfOrig.source.slots.with = <<<<"s">>>>
    /\ cfOrig.source.slots.from = UsedSlots.from
    /\ cfTarget.slots.with = <<<<"s">>>>
    /\ cfTarget.slots.from = UsedSlots.from
    /\ cfSource # cfCopied.source

----------------------------------------------------------------------------
(* Claims on bodyPart *)

\* the calls that were given the byte at position i to parse
CallsOn(i) == {j \in 1..Len(bpCalls) : bpCalls[j].from <= i /\ i < bpCalls[j].stop}

\* C19: bodyPart::parse calls the header parser first, from position, and
\* then the body parser on exactly the range from the position where the
\* header parser stopped to end: every byte of [position, end) is parsed by
\* exactly one of the two, the header before the body, and the new position
\* reported is end.
C19_HeaderThenBody ==
    /\ Len(bpCalls) <= 2
    /\ Len(bpCalls) >= 1 =>
            /\ bpCalls[1].parser = "header"
            /\ bpCalls[1].from = bpPosition
            /\ bpCalls[1].end = bpEnd
    /\ Len(bpCalls) >= 2 =>
            /\ bpCalls[2].parser = "body"
            /\ bpCalls[2].from = bpCalls[1].stop
            /\ bpCalls[2].end = bpEnd
    /\ bpPc = "done" =>
            /\ Len(bpCalls) = 2
            /\ \A i \in bpPosition..(bpEnd - 1) : Cardinality(CallsOn(i)) = 1
            /\ bpWantPos => bpNewPosition = bpEnd

\* a part that starts after the start of the buffer, with a header block and
\* a body, was parsed
C19_Witness ==
    /\ bpPc = "done"
    /\ bpPosition > 0
    /\ bpCalls[1].stop >= bpPosition + 2
    /\ bpCalls[1].stop < bpEnd
    /\ bpWantPos
    /\ bpNewPosition = bpEnd

RECURSIVE SubtreeOf(_, _)
\* the addresses of the nodes of the subtree of n in the heap h
SubtreeOf(h, n) ==
    {n} \cup UNION {SubtreeOf(h, h[n].children[i]) : i \in 1..Len(h[n].children)}

RECURSIVE ContentOf(_, _)
\* the subtree of n without its addresses: the header of n and the content
\* of its children, in order
ContentOf(h, n) ==
    [header |-> h[n].header,
     parts |-> [i \in 1..Len(h[n].children) |-> ContentOf(h, h[n].children[i])]]

\* C20: clone() of any node of any part tree returns a new node whose parent
\* is null, also when the cloned node has a parent; its header and body are
\* copies of those of the original; every child in the subtree of the clone
\* has as parent a node of the clone, never a node of the original tree, and
\* is a child of that parent; the original tree and its parent references
\* are unchanged.
C20_CloneIsDetachedDeepCopy ==
    clResult # NULL =>
        /\ clResult > Len(heapBefore)
        /\ heap[clResult].parent = NULL
        /\ ContentOf(heap, clResult) = ContentOf(heapBefore, clNode)
        /\ \A c \in SubtreeOf(heap, clResult) \ {clResult} :
              /\ c > Len(heapBefore)
              /\ heap[c].parent \in SubtreeOf(heap, clResult)
              /\ heap[c].parent > Len(heapBefore)
              /\ \E i \in 1..Len(heap[heap[c].parent].children) :
                    heap[heap[c].parent].children[i] = c
        /\ Cardinality(SubtreeOf(heap, clResult))
              = Cardinality(SubtreeOf(heapBefore, clNode))
        /\ \A i \in 1..Len(heapBefore) : heap[i] = heapBefore[i]

\* a node that has a parent and a child was cloned
C20_Witness ==
    /\ clResult # NULL
    /\ heapBefore[clNode].parent # NULL
    /\ Len(heapBefore[clNode].children) = 1
    /\ heap[clResult].parent = NULL
    /\ Len(heap[clResult].children) = 1
    /\ heap[heap[clResult].children[1]].parent = clResult

----------------------------------------------------------------------------
(* Claims on SMTPTransport *)

\* the call that is running or was the last to end
CallName == IF trace = <<>> THEN "none" ELSE trace[1].name

\* the last event of the history
LastEvent == trace[Len(trace)]

\* the call has ended by throwing `what'
Raised(what) ==
    /\ tpc = "done"
    /\ LastEvent.k = "throw"
    /\ LastEvent.what = what

\* the call has ended by throwing `what' before it did anything else, and
\* the transport is as it was when the call began
RejectedAtOnce(what) ==
    /\ tpc = "done"
    /\ trace = <<trace[1], [k |-> "throw", what |-> what]>>
    /\ Snapshot(Transport) = atCall

\* the mailboxes of a recipient field, none when the field is absent
FieldList(field) == IF field.present THEN field.value ELSE <<>>

\* C21: send(message) on a message without a From field throws no_expeditor
\* before anything is sent and leaves the transport as it was.  With a From
\* field the expeditor is its value and the recipient list is the mailboxes
\* of To, then Cc, then Bcc, each taken when the field is present; a missing
\* To, Cc or Bcc is no error as long as that list and the expeditor are not
\* empty.
C21_SendMessageExpeditorAndRecipients ==
    CallName = "send(message)" =>
        LET msg == trace[1].msg
        IN  IF ~msg.from.present
            THEN RejectedAtOnce("no_expeditor")
            ELSE /\ expeditor = msg.from.value
                 /\ recipients = FieldList(msg.to) \o FieldList(msg.cc)
                                    \o FieldList(msg.bcc)
                 /\ (recipients # <<>> /\ expeditor # "") =>
                        /\ ~Raised("no_recipient")
                        /\ ~Raised("no_expeditor")

\* a message without From but with To was given to a connected transport and
\* was rejected
C21_Witness ==
    /\ CallName = "send(message)"
    /\ ~trace[1].msg.from.present
    /\ trace[1].msg.to.present
    /\ isConnected(atCall)
    /\ Raised("no_expeditor")

\* a message without To, with Cc and Bcc, had both recipients accepted
C21_WitnessRecipients ==
    /\ CallName = "send(message)"
    /\ ~trace[1].msg.to.present
    /\ recipients = <<"c@z", "d@w">>
    /\ tpc = "data"

\* the expeditor and the recipient list the generic send was entered with
\* (directly, or by send(message) for a message with a From field)
SendEntered ==
    \/ CallName = "send"
    \/ CallName = "send(message)" /\ trace[1].msg.from.present

\* C28: the generic send with an empty recipient list throws no_recipient,
\* also when the expeditor is empty too; with recipients and an empty
\* expeditor it throws no_expeditor.  Both happen before anything is sent,
\* and socket, handler and flags are as before the call.
C28_SendArgumentErrors ==
    SendEntered =>
        /\ recipients = <<>> => RejectedAtOnce("no_recipient")
        /\ (recipients # <<>> /\ expeditor = "") =>
                RejectedAtOnce("no_expeditor")

\* send with no recipient and no expeditor on a connected transport: the
\* recipient check won
C28_Witness ==
    /\ CallName = "send"
    /\ trace[1].recipients = <<>>
    /\ trace[1].expeditor = ""
    /\ isConnected(atCall)
    /\ Raised("no_recipient")

\* send with recipients and an empty expeditor on a connected transport
C28_WitnessExpeditor ==
    /\ CallName = "send"
    /\ trace[1].recipients # <<>>
    /\ trace[1].expeditor = ""
    /\ isConnected(atCall)
    /\ Raised("no_expeditor")

\* C29: connect() on a connected transport throws already_connected and
\* disconnect() on a transport that is not connected throws not_connected;
\* both send nothing and leave socket, handler and flags as they were.  A
\* disconnect() that succeeds leaves no socket, no time-out handler and both
\* flags false.
C29_ConnectDisconnectGuards ==
    /\ (CallName = "connect" /\ isConnected(atCall)) =>
            RejectedAtOnce("already_connected")
    /\ (CallName = "disconnect" /\ ~isConnected(atCall)) =>
            RejectedAtOnce("not_connected")
    /\ (CallName = "disconnect" /\ isConnected(atCall)) =>
            /\ tpc = "done"
            /\ LastEvent = [k |-> "return"]
            /\ m_socket = NULL
            /\ m_timeoutHandler = NULL
            /\ ~m_authentified
            /\ ~m_extendedSMTP

\* an authenticated extended session with a time-out handler was disconnected
C29_Witness ==
    /\ CallName = "disconnect"
    /\ isConnected(atCall)
    /\ atCall.m_extendedSMTP
    /\ atCall.m_timeoutHandler # NULL
    /\ LastEvent = [k |-> "return"]

\* a second connect() was refused
C29_WitnessConnect ==
    /\ CallName = "connect"
    /\ Raised("already_connected")

\* disconnect() was refused on a transport that still holds a socket
C29_WitnessDisconnect ==
    /\ CallName = "disconnect"
    /\ atCall.m_socket # NULL
    /\ Raised("not_connected")

\* event i of the history is a command line given to the socket (the line
\* end that follows it is an event of its own)
IsCommand(i) == trace[i].k = "send" /\ trace[i].data # "\r\n"

\* event i is the command `line'
IsCommandLine(i, line) == trace[i].k = "send" /\ trace[i].data = line

\* event i is a reply read from the server
IsReply(i) == trace[i].k = "recv"

\* event i is a RCPT TO command of the running send
IsRcpt(i) ==
    \E n \in 1..Len(recipients) : IsCommandLine(i, RcptCommand(recipients, n))

\* the commands and replies before event i
CommandsBefore(i) == {j \in 1..(i - 1) : IsCommand(j)}
RepliesBetween(j, i) == {r \in (j + 1)..(i - 1) : IsReply(r)}

\* the greatest element of a non-empty set of positions
Last(S) == CHOOSE j \in S : \A o \in S : o <= j

\* the command or the raw data sent last before event i
RequestsBefore(i) ==
    {j \in 1..(i - 1) : IsCommand(j) \/ trace[j].k = "sendRaw"}

\* the one reply between the last command before event i and event i has
\* the code `code'
LastCommandAnswered(i, code) ==
    /\ CommandsBefore(i) # {}
    /\ LET j == Last(CommandsBefore(i))
       IN  /\ Cardinality(RepliesBetween(j, i)) = 1
           /\ \A r \in RepliesBetween(j, i) :
                    responseCode(trace[r].response) = code

\* the code the transaction needs in reply r
ExpectedCode(r) ==
    LET j == Last(RequestsBefore(r))
    IN  IF IsCommandLine(j, "DATA") THEN 354 ELSE 250

\* reply r is not the one the transaction needs
Unexpected(r) ==
    /\ IsReply(r)
    /\ RequestsBefore(r) # {}
    /\ responseCode(trace[r].response) # ExpectedCode(r)

\* after reply r the call sent QUIT, closed the socket, threw command_error,
\* and did nothing else
TornDownAfter(r) ==
    /\ Len(trace) = r + 4
    /\ IsCommandLine(r + 1, "QUIT")
    /\ IsCommandLine(r + 2, "\r\n")
    /\ trace[r + 3].k = "socket" /\ trace[r + 3].op = "disconnect"
    /\ trace[r + 4].k = "throw" /\ trace[r + 4].what = "command_error"
    /\ tpc = "done"
    /\ ~isConnected(Transport)

\* C26: the generic send keeps the order of an SMTP transaction.  The first
\* command is MAIL FROM with the expeditor; the n-th RCPT TO names the n-th
\* recipient and is sent only after the previous command was answered 250;
\* DATA is sent only after every recipient was named and the last one
\* answered 250; message bytes are sent only after DATA was answered 354;
\* the call returns only after the terminator was answered 250.  After the
\* first reply with another code nothing of the transaction is sent: QUIT
\* is sent, the socket is closed, isConnected() is false and command_error
\* is thrown.
C26_SendTransactionOrder ==
    SendEntered =>
        /\ \A i \in 1..Len(trace) :
            /\ (IsCommand(i) /\ CommandsBefore(i) = {}) =>
                    IsCommandLine(i, "MAIL FROM: <" \o expeditor \o ">")
            /\ (IsCommand(i) /\ CommandsBefore(i) # {}) =>
                    \/ IsRcpt(i)
                    \/ IsCommandLine(i, "DATA")
                    \/ IsCommandLine(i, "QUIT")
            /\ (IsRcpt(i) /\ CommandsBefore(i) # {}) =>
                    LET n == Cardinality({j \in CommandsBefore(i) : IsRcpt(j)})
                    IN  /\ n < Len(recipients)
                        /\ IsCommandLine(i, RcptCommand(recipients, n + 1))
                        /\ Cardinality(CommandsBefore(i)) = n + 1
                        /\ LastCommandAnswered(i, 250)
            /\ IsCommandLine(i, "DATA") =>
                    /\ Cardinality({j \in CommandsBefore(i) : IsRcpt(j)})
                            = Len(recipients)
                    /\ Cardinality(CommandsBefore(i)) = Len(recipients) + 1
                    /\ LastCommandAnswered(i, 250)
            /\ trace[i].k = "sendRaw" =>
                    /\ CommandsBefore(i) # {}
                    /\ IsCommandLine(Last(CommandsBefore(i)), "DATA")
                    /\ LastCommandAnswered(i, 354)
            /\ trace[i].k = "return" =>
                    /\ i > 2
                    /\ IsReply(i - 1)
                    /\ responseCode(trace[i - 1].response) = 250
                    /\ trace[i - 2].k = "sendRaw"
                    /\ trace[i - 2].bytes = Terminator
            /\ Unexpected(i) => TornDownAfter(i)
            /\ IsCommandLine(i, "QUIT") => Unexpected(i - 1)

\* a message for two recipients was sent and accepted
C26_Witness ==
    /\ CallName = "send"
    /\ Len(recipients) = 2
    /\ tpc = "done"
    /\ LastEvent = [k |-> "return"]

\* the second recipient was refused and the connection was given up
C26_WitnessRefused ==
    /\ CallName = "send"
    /\ Len(recipients) = 2
    /\ Cardinality({j \in 1..Len(trace) : IsRcpt(j)}) = 2
    /\ Raised("command_error")
    /\ isConnected(atCall)

\* the command `line' of the running call was answered, and the code of the
\* reply is in `codes'
AnsweredIn(line, codes) ==
    \E i \in 1..Len(trace) :
        /\ IsCommandLine(i, line)
        /\ i + 2 <= Len(trace)
        /\ IsCommandLine(i + 1, "\r\n")
        /\ IsReply(i + 2)
        /\ responseCode(trace[i + 2].response) \in codes

\* the codes of the model's replies other than `code'
CodesBut(code) == {responseCode(r) : r \in Responses} \ {code}

\* the server greeted the new connection with 220: the first reply of the
\* call, read before any command was sent
Greeted ==
    \E r \in 1..Len(trace) :
        /\ IsReply(r)
        /\ RepliesBetween(0, r) = {}
        /\ CommandsBefore(r) = {}
        /\ responseCode(trace[r].response) = 220

EhloLine == "EHLO " \o HostName
HeloLine == "HELO " \o HostName

\* the identification exchange succeeded
Identified ==
    \/ AnsweredIn(EhloLine, {250})
    \/ AnsweredIn(EhloLine, CodesBut(250)) /\ AnsweredIn(HeloLine, {250})

\* the socket of the call was closed again by the call
TornDown ==
    \E i \in 1..Len(trace) :
        trace[i].k = "socket" /\ trace[i].op = "disconnect"

\* C27: connect() on a transport that is not connected does the handshake in
\* order.  EHLO is sent only after a 220 greeting and is the first command;
\* HELO is sent only after EHLO got a reply other than 250; once the
\* identification has succeeded the extended-SMTP flag says whether it was
\* EHLO that got 250; AUTH is sent only when authentication is required and
\* EHLO got 250.  isConnected() is true only when the call has returned,
\* after greeting, identification and, when required, an authentication
\* answered 235; it is false at every earlier point and after a failure.
C27_ConnectHandshakeOrder ==
    (CallName = "connect" /\ ~isConnected(atCall)) =>
        /\ \A i \in 1..Len(trace) :
            /\ IsCommandLine(i, EhloLine) =>
                    /\ CommandsBefore(i) = {}
                    /\ Greeted
                    /\ Cardinality(RepliesBetween(0, i)) = 1
            /\ IsCommandLine(i, HeloLine) =>
                    /\ CommandsBefore(i) # {}
                    /\ IsCommandLine(Last(CommandsBefore(i)), EhloLine)
                    /\ Cardinality(RepliesBetween(Last(CommandsBefore(i)), i))
                            = 1
                    /\ AnsweredIn(EhloLine, CodesBut(250))
            /\ IsCommandLine(i, "AUTH CRAM-MD5") =>
                    /\ needAuth
                    /\ TornDown \/ m_extendedSMTP
                    /\ AnsweredIn(EhloLine, {250})
                    /\ IsCommandLine(Last(CommandsBefore(i)), EhloLine)
        /\ (Identified /\ ~TornDown) =>
                (m_extendedSMTP <=> AnsweredIn(EhloLine, {250}))
        /\ isConnected(Transport) =>
                /\ tpc = "done"
                /\ LastEvent = [k |-> "return"]
                /\ Greeted
                /\ Identified
                /\ needAuth =>
                        /\ AnsweredIn("AUTH CRAM-MD5", {334})
                        /\ AnsweredIn(CramMd5Answer(<<>>), {235})
        /\ (tpc = "done" /\ LastEvent.k = "return") => isConnected(Transport)

\* connect() with authentication required has returned
C27_Witness ==
    /\ CallName = "connect"
    /\ needAuth
    /\ tpc = "done"
    /\ LastEvent = [k |-> "return"]
    /\ isConnected(Transport)

\* connect() without authentication has returned after falling back to HELO
C27_WitnessHelo ==
    /\ CallName = "connect"
    /\ AnsweredIn(HeloLine, {250})
    /\ isConnected(Transport)
    /\ ~m_extendedSMTP

\* connect() started with the extended flag left set by a call that timed
\* out, and fell back to HELO
C27_WitnessStaleFlag ==
    /\ CallName = "connect"
    /\ atCall.m_extendedSMTP
    /\ AnsweredIn(HeloLine, {250})

\* the elements of a sequence of sequences, in order
RECURSIVE Gathered(_)
Gathered(chunks) ==
    IF chunks = <<>> THEN <<>> ELSE Head(chunks) \o Gathered(Tail(chunks))

\* the reads of the stream the running send was given
StreamGiven ==
    IF CallName = "send" THEN trace[1].is
    ELSE StringStream(trace[1].msg.text)

\* the message that stream delivers
MessageBytes == Gathered(StreamGiven)

\* the byte blocks given to sendRaw by the running call, in order
RawBlocks ==
    LET raw == SelectSeq(trace, LAMBDA e : e.k = "sendRaw")
    IN  [i \in 1..Len(raw) |-> raw[i].bytes]

\* the message with every '.' that starts a line doubled: the '.' at the
\* first byte and every '.' after a line feed
RECURSIVE DotStuffed(_, _)
DotStuffed(msg, i) ==
    IF i > Len(msg) THEN <<>>
    ELSE (IF msg[i] = "." /\ (i = 1 \/ msg[i - 1] = "\n")
          THEN <<".", ".">> ELSE <<msg[i]>>)
         \o DotStuffed(msg, i + 1)

\* C25: in the DATA phase of send every '.' that is the first character of a
\* line of the message goes out as '..', wherever it is in the message (the
\* first byte too) and however the stream cuts the message into reads (also
\* a '.' at the start of a read that follows a read ending with a line
\* feed); every other byte goes out unchanged and in order.  So the bytes
\* sent before the terminator are the dot-stuffed message.
C25_DotsAtLineStartDoubled ==
    (SendEntered /\ RawBlocks # <<>>) =>
        /\ RawBlocks[Len(RawBlocks)] = Terminator
        /\ Gathered(SubSeq(RawBlocks, 1, Len(RawBlocks) - 1))
                = DotStuffed(MessageBytes, 1)

\* a '.' after a line feed in the same read went out doubled
C25_DoubledWithinRead ==
    /\ SendEntered
    /\ StreamGiven = <<<<"\n", ".">>>>
    /\ RawBlocks = <<<<"\n">>, <<".">>, <<".">>, Terminator>>

----------------------------------------------------------------------------
(* Claims on relayField::parse: keyword matching *)

\* C24: outside a comment a word starts a new part only if it is exactly
\* one of the keywords from, by, via, with, id, for, in any case; every other
\* word, also one that only begins with the letters of a keyword ('idle'),
\* is accumulated into the value of the current part and is not dropped.
C24_OnlyExactKeywordsStartPart ==
    \A i \in 1..Len(rlog) :
        (\A j \in 1..i : NoParen(rlog[j].word)) =>
            /\ rlog[i].kw # "None" => ExactKeyword(rlog[i].word)
            /\ ~ExactKeyword(rlog[i].word) => rlog[i].pushed = <<rlog[i].word>>

----------------------------------------------------------------------------
(* Claims on the word and charset constructors and assignments *)

\* the word was built without a charset being given
WordWithoutCharset == wordBuilt \in {"word()", "word(buffer)"}

\* the last operation assigned a string: only the buffer may differ from the
\* word before it
OnlyBufferAssigned ==
    wordAssigned => m_charset = wordBefore.m_charset

\* C23: an entity built without an explicit charset has the platform's
\* locale charset: a word built by word() or word(buffer), and a charset
\* built by charset().  Assigning a string to a word leaves its charset as
\* it was.
C23_DefaultIsLocaleCharset ==
    /\ WordWithoutCharset => m_charset = localeCharset
    /\ charsetBuilt = "charset()" => m_name = localeCharset
    /\ OnlyBufferAssigned

\* C23, as the code has it: a word built by word() or word(buffer) has the
\* platform's locale charset, a charset built by charset() is US-ASCII on
\* every platform, and assigning a string to a word leaves its charset as
\* it was.
C23_WordDefaultIsLocaleCharset ==
    /\ WordWithoutCharset => m_charset = localeCharset
    /\ charsetBuilt = "charset()" => m_name = US_ASCII
    /\ OnlyBufferAssigned

\* on a platform whose locale charset is not US-ASCII: a word built with an
\* explicit charset other than the locale's was assigned another text, and a
\* charset was built by charset()
C23_Witness ==
    /\ localeCharset # US_ASCII
    /\ wordBuilt = "word(buffer, charset)"
    /\ wordAssigned
    /\ m_charset # localeCharset
    /\ m_buffer # wordBefore.m_buffer
    /\ charsetBuilt = "charset()"

\* a word built by word(buffer) on such a platform, then assigned a text
C23_WitnessLocale ==
    /\ localeCharset = <<"u", "t", "f", "-", "8">>
    /\ wordBuilt = "word(buffer)"
    /\ wordAssigned
    /\ m_buffer = <<"b">>
    /\ wordBefore.m_buffer = <<"a">>

----------------------------------------------------------------------------
(* Claims on utility::random *)

\* 2^31 - 1, the modulus of the minimal standard generator
Mersenne31 == 2147483647

\* (16807 * x) mod (2^31 - 1) for a 32-bit x: the product is H * 2^31 + L
\* with L < 2^31, and 2^31 is 1 modulo 2^31 - 1, so the remainder is that of
\* H + L, which is less than twice the modulus
ParkMiller(x) ==
    LET p == Times(x)
        H == p.top * 2 + p.hi \div TopBit
        L == (p.hi % TopBit) * LimbBase + p.lo
        r == IF L >= Mersenne31 - H THEN L - (Mersenne31 - H) ELSE L + H
    IN  [hi |-> r \div LimbBase, lo |-> r % LimbBase]

\* C30: every call of random::next() replaces the state x by
\* (16807 * x) mod (2^31 - 1) and returns the new state, for every 32-bit
\* value of x.
C30_NextIsParkMiller ==
    rndCalls > 0 =>
        /\ m_next = ParkMiller(rndBefore)
        /\ rndReturned = m_next

\* what does hold: the call returns the new state, and the new state is the
\* minimal standard one as long as 16807 * x is less than 2^31 - 1
NextForSmallStates ==
    rndCalls > 0 =>
        /\ rndReturned = m_next
        /\ (rndBefore.hi = 0 \/ (rndBefore.hi = 1 /\ rndBefore.lo <= 62237))
                => m_next = ParkMiller(rndBefore)

----------------------------------------------------------------------------
(* Claims on SMTPTransport: errors of connect, calls without a socket, *)
(* progress notifications and line ends *)

\* the transport t holds nothing: no socket, no handler, both flags false
FullyDisconnected(t) ==
    /\ t.m_socket = NULL
    /\ t.m_timeoutHandler = NULL
    /\ ~t.m_authentified
    /\ ~t.m_extendedSMTP

\* the running or last call is a connect() that went past its first test
ConnectEntered ==
    /\ CallName = "connect"
    /\ Len(trace) >= 2
    /\ trace[2].k = "socket"
    /\ trace[2].op = "connect"

\* connect() has ended with an error raised after its first test
ConnectFailed ==
    /\ ConnectEntered
    /\ tpc = "done"
    /\ LastEvent.k = "throw"

\* C31: whenever connect() raises an error after its first test (bad
\* greeting, EHLO and HELO refused, authentication without ESMTP,
\* authentication refused, no method accepted, time-out), the transport
\* holds no socket and no time-out handler and both flags are false; hence
\* a connect() that creates a socket never finds an earlier one in m_socket.
C31_ConnectErrorLeavesDisconnected ==
    /\ ConnectFailed => FullyDisconnected(Transport)
    /\ ConnectEntered => atCall.m_socket = NULL

\* what does hold: the errors raised after internalDisconnect() leave the
\* transport with nothing, and these are all errors of connect() but the
\* time-out and the authentication_error of `case End'
ConnectErrorsAfterTearDown ==
    ConnectFailed =>
        (FullyDisconnected(Transport) <=> TornDown)

\* event i is an operation on the socket: send, sendRaw, connect, disconnect
IsSocketOperation(i) == trace[i].k \in {"send", "sendRaw", "socket"}

\* event i is a member of the socket called through m_socket = NULL
IsNullSocketUse(i) == trace[i].k = "crash"

\* C32: in every sequence of connect(), disconnect(), noop() and send()
\* calls no member of the socket is called while m_socket is NULL: every
\* operation on the socket is done on a socket the transport holds.
C32_NoSocketUseWithoutSocket ==
    \A i \in 1..Len(trace) :
        /\ ~IsNullSocketUse(i)
        /\ IsSocketOperation(i) => trace[i].sock # NULL

\* what does hold: connect() and disconnect() never call through a NULL
\* m_socket; noop() and send() do so exactly when they are called on a
\* transport without a socket and (for send) the arguments pass the checks
NullSocketUseOnlyInNoopAndSend ==
    /\ (\E i \in 1..Len(trace) : IsNullSocketUse(i)) =>
            /\ CallName \in {"noop", "send", "send(message)"}
            /\ atCall.m_socket = NULL
            /\ trace = <<trace[1], [k |-> "crash"]>>
            /\ tpc = "crashed"
    /\ (CallName = "noop" /\ atCall.m_socket = NULL) => tpc = "crashed"


\* the positions in the history of the calls of the progression listener
ListenerCalls == {i \in 1..Len(trace) : trace[i].k = "progress"}

\* the positions in the history of the calls of sendRaw
RawCalls == {i \in 1..Len(trace) : trace[i].k = "sendRaw"}

\* the n-th smallest position of a set of positions
Nth(S, n) == CHOOSE i \in S : Cardinality({j \in S : j <= i}) = n

\* the number of bytes the first n reads of the stream gave
RECURSIVE BytesRead(_, _)
BytesRead(stream, n) ==
    IF n = 0 THEN 0 ELSE Len(stream[n]) + BytesRead(stream, n - 1)

\* the running send was given a listener and has gone through its DATA phase
DataPhaseWithListener ==
    /\ SendEntered
    /\ progress
    /\ RawCalls # {}

\* C34: with a progression listener, a send that reaches the DATA phase
\* calls start once, with the size given, before any byte is sent; then
\* progress(current, total) once per read of the stream, after the bytes of
\* that read were sent, with current the number of bytes read so far (so
\* non-decreasing) and current <= total; then stop once, after the last read
\* and right before the terminator is sent.  No call of the listener comes
\* before start or after stop.
C34_ProgressNotifications ==
    DataPhaseWithListener =>
        LET n == Len(StreamGiven)
            call(j) == trace[Nth(ListenerCalls, j)]
        IN  /\ Cardinality(ListenerCalls) = n + 2
            /\ call(1).op = "start"
            /\ call(1).total = size
            /\ \A i \in RawCalls : Nth(ListenerCalls, 1) < i
            /\ \A j \in 1..n :
                  /\ call(j + 1).op = "progress"
                  /\ call(j + 1).current = BytesRead(StreamGiven, j)
                  /\ call(j + 1).current <= call(j + 1).total
                  /\ call(j).current <= call(j + 1).current
                  /\ call(j).total <= call(j + 1).total
                  /\ \E i \in RawCalls :
                        /\ Nth(ListenerCalls, j) < i
                        /\ i < Nth(ListenerCalls, j + 1)
            /\ call(n + 2).op = "stop"
            /\ call(n + 2).total = call(n + 1).total
            /\ trace[Nth(ListenerCalls, n + 2) + 1].k = "sendRaw"
            /\ trace[Nth(ListenerCalls, n + 2) + 1].bytes = Terminator
            /\ RawCalls \cap (Nth(ListenerCalls, n + 1)..Len(trace))
                    = {Nth(ListenerCalls, n + 2) + 1}

\* a message of two bytes given in two reads with the size 0: the total
\* grows with the bytes read
C34_Witness ==
    /\ DataPhaseWithListener
    /\ size = 0
    /\ StreamGiven = <<<<"a">>, <<".">>>>
    /\ \E i, j \in ListenerCalls :
          /\ i < j
          /\ trace[i].op = "progress" /\ trace[i].current = 1
          /\ trace[i].total = 1
          /\ trace[j].op = "progress" /\ trace[j].current = 2
          /\ trace[j].total = 2
    /\ tpc = "end"

\* an empty stream: start and stop only, then the terminator
C34_WitnessEmpty ==
    /\ DataPhaseWithListener
    /\ StreamGiven = <<>>
    /\ Cardinality(ListenerCalls) = 2
    /\ tpc = "end"

\* a stream whose last read gives no byte, with the size of the message
\* given: the last progress call repeats the count
C34_WitnessEmptyRead ==
    /\ DataPhaseWithListener
    /\ size = MaxMsgLen
    /\ StreamGiven = <<<<"a", "a">>, <<>>>>
    /\ Cardinality(ListenerCalls) = 4


\* the command at event i is followed at once by the line end
EndsWithCRLF(i) == i < Len(trace) /\ IsCommandLine(i + 1, "\r\n")

\* C35: every command line the transport sends (EHLO, HELO, AUTH CRAM-MD5,
\* the authentication response, MAIL FROM, RCPT TO, DATA, NOOP, QUIT) is
\* followed by CRLF before the transport reads a reply or sends anything
\* else.
C35_CommandsEndWithCRLF ==
    \A i \in 1..Len(trace) : IsCommand(i) => EndsWithCRLF(i)

\* what does hold: every command but NOOP is followed by CRLF, and NOOP
\* never is
CommandsButNoopEndWithCRLF ==
    \A i \in 1..Len(trace) :
        IsCommand(i) => (EndsWithCRLF(i) <=> trace[i].data # "NOOP")

----------------------------------------------------------------------------
(* Claims on relayField::parse: what the field held before *)

\* lines 152-179 on the slots s: `value' is stored into the slot of the part
\* that ends
StoreInto(s, oldPart, newPart, value) ==
    LET target == IF oldPart = "None" THEN "None"
                  ELSE FlushTarget(oldPart, newPart)
    IN  [from |-> Slot("From", s.from, target, value),
         by |-> Slot("By", s.by, target, value),
         via |-> Slot("Via", s.via, target, value),
         with |-> IF target = "With" THEN StoreWith(s.with, value) ELSE s.with,
         id |-> Slot("Id", s.id, target, value),
         for |-> Slot("For", s.for, target, value)]

\* the loop of parse (lines 88-181) as a function: the slots after the words
\* of `stream' were read, from the slots s, the accumulated words acc, the
\* part p and the comment flag inC
RECURSIVE ParseWords(_, _, _, _, _)
ParseWords(s, acc, p, inC, stream) ==
    LET x == Extract(stream)
        c == CloseComment(x.word, inC)
        newPart == IF c.inC THEN "None" ELSE KeywordPart(c.word)
    IN  IF ~x.ok THEN StoreInto(s, p, "None", JoinWith(acc, <<" ">>))
        ELSE IF newPart # "None"
             THEN ParseWords(StoreInto(s, p, newPart,
                                       JoinWith(acc \o c.head, <<" ">>)),
                             <<>>, newPart, c.inC, x.rest)
             ELSE ParseWords(s, acc \o c.head \o <<c.word>>, p,
                             OpensComment(c.word, c.inC), x.rest)

\* relayField::parse as a function: the slots of a field that held s, after
\* the parse of buf
parse(s, buf) ==
    IF SplitPoint(buf) = 0 THEN s
    ELSE ParseWords(s, <<>>, "None", FALSE,
                    SubSeq(buf, 1, SplitPoint(buf) - 1))

\* C33: the result of parse depends on the parsed text only: from, by, via,
\* the with list, id and for after the parse are those a newly constructed
\* field has after the parse of the same value, whatever the field held
\* before; parsing a value a second time into the field leaves the with list
\* as it is after the first time, and a slot whose keyword is absent does
\* not keep its earlier content.
C33_ParseIndependentOfEarlierContent ==
    rpc = "done" =>
        /\ Slots = parse(EmptySlots, rbuffer)
        /\ parse(Slots, rbuffer).with = parse(EmptySlots, rbuffer).with

\* what does hold: the slots after the parse are a function of the value
\* and of what the field held before, and a new field gets what the claim
\* says
ParseDependsOnEarlierContent ==
    rpc = "done" =>
        /\ Slots = parse(prior, rbuffer)
        /\ prior = EmptySlots => Slots = parse(EmptySlots, rbuffer)

----------------------------------------------------------------------------
(* Claims on relayField::parse: keywords and comments as the text has them *)

\* the words of the value before its last ';'
WrittenWords ==
    SplitWords(SubSeq(rbuffer, 1, FindLast(rbuffer, ";") - 1))

RECURSIVE CommentAfter(_, _)
\* whether a comment is open after the characters of w, when st says whether
\* one was open before them: '(' opens a comment, ')' closes it; "unclear"
\* when a '(' is written inside a comment or a ')' outside one
CommentAfter(w, st) ==
    IF w = <<>> THEN st
    ELSE CommentAfter(Tail(w),
            IF Head(w) = "(" THEN (IF st = "closed" THEN "open" ELSE "unclear")
            ELSE IF Head(w) = ")" THEN (IF st = "open" THEN "closed" ELSE "unclear")
            ELSE st)

RECURSIVE CommentBefore(_, _)
\* whether a comment is open before word i of ws
CommentBefore(ws, i) ==
    IF i = 1 THEN "closed" ELSE CommentAfter(ws[i - 1], CommentBefore(ws, i - 1))

\* the text leaves no doubt where its comments are: every '(' is written
\* outside a comment, every ')' inside one and at the end of its word
ClearComments(ws) ==
    /\ \A i \in 1..(Len(ws) + 1) : CommentBefore(ws, i) # "unclear"
    /\ \A i \in 1..Len(ws) : \A j \in 1..Len(ws[i]) :
            ws[i][j] = ")" => j = Len(ws[i])

\* the keyword a word is, "None" for every other word
ExactPart(w) ==
    IF isStringEqualNoCase(w, <<"f", "r", "o", "m">>) THEN "From"
    ELSE IF isStringEqualNoCase(w, <<"b", "y">>) THEN "By"
    ELSE IF isStringEqualNoCase(w, <<"v", "i", "a">>) THEN "Via"
    ELSE IF isStringEqualNoCase(w, <<"w", "i", "t", "h">>) THEN "With"
    ELSE IF isStringEqualNoCase(w, <<"i", "d">>) THEN "Id"
    ELSE IF isStringEqualNoCase(w, <<"f", "o", "r">>) THEN "For"
    ELSE "None"

\* the keyword written as word i of ws outside a comment, "None" when word
\* i is another word or is inside a comment
WrittenKeyword(ws, i) ==
    IF CommentBefore(ws, i) = "closed" THEN ExactPart(ws[i]) ELSE "None"

\* the slots s once value is stored into the slot of the keyword p: a with
\* entry is added, the other slots are set; "None" has no slot
StoredByClaim(s, p, value) ==
    IF p = "From" THEN [s EXCEPT !.from = value]
    ELSE IF p = "By" THEN [s EXCEPT !.by = value]
    ELSE IF p = "Via" THEN [s EXCEPT !.via = value]
    ELSE IF p = "With" THEN [s EXCEPT !.with = Append(@, value)]
    ELSE IF p = "Id" THEN [s EXCEPT !.id = value]
    ELSE IF p = "For" THEN [s EXCEPT !.for = value]
    ELSE s

RECURSIVE SlotsByClaim(_, _, _, _, _)
\* the words from word i on are read left to right, p being the last keyword
\* and acc the words since then: a keyword outside a comment stores acc into
\* the slot of p and empties it, any other word goes to acc, the end of the
\* words stores acc into the slot of p
SlotsByClaim(ws, i, p, acc, s) ==
    IF i > Len(ws) THEN StoredByClaim(s, p, JoinWith(acc, <<" ">>))
    ELSE IF WrittenKeyword(ws, i) # "None"
    THEN SlotsByClaim(ws, i + 1, WrittenKeyword(ws, i), <<>>,
                      StoredByClaim(s, p, JoinWith(acc, <<" ">>)))
    ELSE SlotsByClaim(ws, i + 1, p, Append(acc, ws[i]), s)

\* C8: the part of the value before the last ';' is split on white space and
\* read left to right; a keyword (from, by, via, with, id, for) read outside
\* a comment stores the words accumulated since the previous keyword into the
\* slot of the previous keyword and empties the accumulator; the end of the
\* input stores the last accumulated words into the slot of the last keyword;
\* words before the first keyword are stored in no slot.  The parse of
\* 'from a.b.com by c.d.com with ESMTP id 123; <date>' gives from = a.b.com,
\* by = c.d.com, with = [ESMTP], id = 123.
C8_FlushIntoPreviousSlot ==
    /\ (rpc = "done" /\ HasDate /\ ClearComments(WrittenWords)) =>
            Slots = SlotsByClaim(WrittenWords, 1, "None", <<>>, prior)
    /\ (rpc = "done" /\ rbuffer = ReceivedExample) =>
            /\ m_from = <<"a", ".", "b", ".", "c", "o", "m">>
            /\ m_by = <<"c", ".", "d", ".", "c", "o", "m">>
            /\ m_with = <<<<"E", "S", "M", "T", "P">>>>
            /\ m_id = <<"1", "2", "3">>

\* the places of the keyword k in ws, in input order
WrittenPlaces(ws, k) ==
    SelectSeq([i \in 1..Len(ws) |-> i], LAMBDA i : WrittenKeyword(ws, i) = k)

\* the place of the first keyword after word i, Len(ws) + 1 when there is none
WrittenNext(ws, i) ==
    IF \E j \in (i + 1)..Len(ws) : WrittenKeyword(ws, j) # "None"
    THEN CHOOSE j \in (i + 1)..Len(ws) :
            /\ WrittenKeyword(ws, j) # "None"
            /\ \A n \in (i + 1)..(j - 1) : WrittenKeyword(ws, n) = "None"
    ELSE Len(ws) + 1

\* the words of the occurrence of a keyword at word i: those up to the next
\* keyword, joined with single spaces
WrittenValue(ws, i) ==
    JoinWith(SubSeq(ws, i + 1, WrittenNext(ws, i) - 1), <<" ">>)

\* the slot of the keyword k holds the words of its last occurrence
HoldsLastOccurrence(ws, k, slot) ==
    LET places == WrittenPlaces(ws, k)
    IN  Len(places) > 0 => slot = WrittenValue(ws, places[Len(places)])

\* C10: in the parse of one value every occurrence of the keyword 'with'
\* appends exactly one entry to the with list, in input order, so the list
\* grows by the number of 'with' keywords outside comments; each of from, by,
\* via, id, for holds the words of the last occurrence of its keyword only.
C10_WithAppendsOthersOverwrite ==
    (rpc = "done" /\ HasDate /\ ClearComments(WrittenWords)) =>
        LET ws == WrittenWords
            places == WrittenPlaces(ws, "With")
        IN  /\ Len(m_with) = Len(prior.with) + Len(places)
            /\ \A n \in 1..Len(places) :
                    Len(prior.with) + n <= Len(m_with) =>
                        m_with[Len(prior.with) + n] = WrittenValue(ws, places[n])
            /\ HoldsLastOccurrence(ws, "From", m_from)
            /\ HoldsLastOccurrence(ws, "By", m_by)
            /\ HoldsLastOccurrence(ws, "Via", m_via)
            /\ HoldsLastOccurrence(ws, "Id", m_id)
            /\ HoldsLastOccurrence(ws, "For", m_for)

\* what does hold of both: for a value without '(' and ')' in which every
\* word that starts like a keyword (from, by, vi, wi, id, fo, in any case) is
\* that keyword, the slots after the parse are those the two claims give,
\* counted from what the field held before
ParseOfPlainValueAsClaimed ==
    (/\ rpc = "done" /\ HasDate
     /\ \A i \in 1..Len(WrittenWords) :
            /\ NoParen(WrittenWords[i])
            /\ KeywordPart(WrittenWords[i]) = ExactPart(WrittenWords[i]))
    => Slots = SlotsByClaim(WrittenWords, 1, "None", <<>>, prior)

====
